---- MODULE Spec2Model ----
(***************************************************************************)
(* Verification model of saw_tool_webscraper: the list/detail crawl        *)
(* (module_scraper_v2.py, module_scraper_v3.py), the aggregation into      *)
(* master modules, and the snapshot comparison of create_update_report.py. *)
(*                                                                         *)
(* Python strings that the code compares, sorts, concatenates or converts  *)
(* with int() are sequences of one-character strings, so that the string   *)
(* order and the numeric order are different things.  Optional dict keys   *)
(* are sequences of length 0 (key absent) or 1 (key present).  Time stamps *)
(* (letzter_check, erstellt) are readings of the clock now, which only the *)
(* specification of repeated runs lets advance.                            *)
(***************************************************************************)
EXTENDS Integers, Sequences, FiniteSets, TLC

VARIABLES
    variant,        \* which script runs: "v2", "v3", "parallel", "phase1"
    site,           \* the external catalog: detail_url -> page content
    pc,             \* position of the running script
    all_modules,    \* entries of the list page, in page order
    modules,        \* the work list (v2: progress['modules'], v3: unique_modules)
    all_berufe,     \* profession names collected by the running process
    masters,        \* group_by_master result, in dict insertion order
    berufe_liste,   \* create_beruf_mapping result
    output          \* content of the snapshot file, None if not written

VARIABLES
    old_db,         \* create_update_report: the snapshot of the latest backup
    new_db,         \* create_update_report: the current snapshot
    changes,        \* create_update_report: result of compare_databases
    report          \* create_update_report: the report of create_report, None if none

VARIABLES
    progress,       \* v2: the progress dict (its 'modules' entry is the variable modules)
    counters,       \* v3: the local counters completed and failed
    file,           \* content of PROGRESS_FILE, None if it does not exist
    completed_ids,  \* v2: set(progress['completed']) taken before the loop
    failed_ids,     \* v2: set(progress['failed']) taken before the loop
    batch_counter,  \* v2: successes since the last batch save
    i,              \* position of the detail loop in modules, from 1
    call,           \* the running activation of scrape_with_retry
    runs,           \* number of times the script was started
    loaded,         \* what load_progress read when this run started
    attempted,      \* positions whose detail retrieval this run has started
    interrupted_after \* items the last interrupted run had finished, -1 if none

VARIABLES
    futures,        \* parallel: state of the task submitted for each position
    down            \* parallel: the detail URLs whose retrieval fails

VARIABLES
    disk_error      \* the write to disk that raised in this run, None if none did

VARIABLES
    now,            \* the clock that datetime.now() reads
    backups,        \* BACKUP_DIR: date -> content of it-module-master-<date>.json
    earlier         \* what each earlier finished run retrieved and wrote, oldest first

VARIABLES
    threads,        \* the worker threads of the pool: the task each runs and its position
    progress_lock   \* the thread that holds progress_lock, 0 if it is free

aggVars == <<all_modules, modules, all_berufe, masters, berufe_liste, output>>
diffVars == <<old_db, new_db, changes, report>>
crawlVars == <<progress, counters, file, completed_ids, failed_ids, batch_counter, i,
               call, runs, loaded, attempted, interrupted_after>>
parVars == <<futures, down>>
envVars == <<disk_error>>
storeVars == <<now, backups, earlier>>
poolVars == <<threads, progress_lock>>
vars == <<variant, site, pc, aggVars, diffVars, parVars, envVars, storeVars, poolVars,
          crawlVars>>

----------------------------------------------------------------------------
(* Bounds of the model *)

MaxRaw == 3         \* longest list page of the aggregation runs
MaxList == 4        \* longest list page of the crawl runs
MaxRuns == 2        \* starts of the script: MaxRuns - 1 interruptions
BATCH_SIZE == 2     \* 50 in the scripts; scaled down with the list length
NUM_WORKERS == 2    \* 5 in module_scraper_parallel.py; scaled down with the list length

MaxItems == 2       \* longest list page of the repeated runs
MaxClock == 2       \* readings of the clock: 0..MaxClock
DayLength == 2      \* clock readings per calendar date

(* Program constants *)

MAX_RETRIES == 3
RETRY_DELAY == 2
REQUEST_DELAY == 1

(* Python values *)

None == <<>>
Some(x) == <<x>>

Range(s) == {s[k] : k \in DOMAIN s}

Min(S) == CHOOSE x \in S : \A y \in S : x <= y

Ord ==
    (" " :> 32) @@ ("-" :> 45) @@
    ("0" :> 48) @@ ("1" :> 49) @@ ("2" :> 50) @@ ("3" :> 51) @@ ("4" :> 52) @@
    ("5" :> 53) @@ ("6" :> 54) @@ ("7" :> 55) @@ ("8" :> 56) @@ ("9" :> 57) @@
    ("C" :> 67) @@ ("E" :> 69) @@ ("F" :> 70) @@ ("I" :> 73) @@ ("M" :> 77) @@
    ("T" :> 84) @@ ("V" :> 86) @@ ("Z" :> 90) @@
    ("d" :> 100) @@ ("e" :> 101) @@ ("f" :> 102) @@ ("n" :> 110)

(* int(s) for a string of decimal digits: the value of its first n digits *)
RECURSIVE DigitsValue(_, _)
DigitsValue(s, n) ==
    IF n = 0 THEN 0 ELSE 10 * DigitsValue(s, n - 1) + (Ord[s[n]] - 48)

int(s) == DigitsValue(s, Len(s))

RECURSIVE StrLess(_, _)
StrLess(a, b) ==
    IF b = <<>> THEN FALSE
    ELSE IF a = <<>> THEN TRUE
    ELSE IF a[1] = b[1] THEN StrLess(Tail(a), Tail(b))
    ELSE Ord[a[1]] < Ord[b[1]]

(* list.sort(key=lambda x: int(x['version'])): stable, ascending *)

VersionLessStr(a, b) == StrLess(a.version, b.version)
VersionLess(a, b) == int(a.version) < int(b.version)

InsertByVersion(x, s) ==
    LET later == {j \in DOMAIN s : VersionLess(x, s[j])}
        p == IF later = {} THEN Len(s) + 1 ELSE Min(later)
    IN  SubSeq(s, 1, p - 1) \o <<x>> \o SubSeq(s, p, Len(s))

RECURSIVE SortByVersion(_)
SortByVersion(s) ==
    IF s = <<>> THEN <<>>
    ELSE InsertByVersion(s[Len(s)], SortByVersion(SubSeq(s, 1, Len(s) - 1)))

(* sorted(masters.keys(), key=int): stable, ascending *)

NummerLessStr(a, b) == StrLess(a.nummer, b.nummer)
NummerLess(a, b) == int(a.nummer) < int(b.nummer)

InsertByNummer(x, s) ==
    LET later == {j \in DOMAIN s : NummerLess(x, s[j])}
        p == IF later = {} THEN Len(s) + 1 ELSE Min(later)
    IN  SubSeq(s, 1, p - 1) \o <<x>> \o SubSeq(s, p, Len(s))

RECURSIVE SortByNummer(_)
SortByNummer(s) ==
    IF s = <<>> THEN <<>>
    ELSE InsertByNummer(s[Len(s)], SortByNummer(SubSeq(s, 1, Len(s) - 1)))

(* sorted(set_of_strings) *)

RECURSIVE SortedStrings(_)
SortedStrings(S) ==
    IF S = {} THEN <<>>
    ELSE LET m == CHOOSE x \in S : \A y \in S \ {x} : StrLess(x, y)
         IN  <<m>> \o SortedStrings(S \ {m})

----------------------------------------------------------------------------
(* The external catalog *)

Nummern == {<<"1", "0", "7">>, <<"1", "0", "0", "0">>}
Versionen == {<<"2">>, <<"1", "0">>}
Titel == {"A", "B"}

BASE_URL == "https://www.modulbaukasten.ch"

(* One entry of the list page: the detail keys are absent *)
Module(n, v, t) ==
    [nummer |-> n, version |-> v, titel |-> t,
     detail_url |-> Some(<<BASE_URL, n, v>>),
     publikationsdatum |-> None, content_hash |-> None,
     handlungsziele |-> None, berufe |-> None, berufe_ids |-> None,
     letzter_check |-> None]

Entries == {Module(n, v, t) : n \in Nummern, v \in Versionen, t \in Titel}

Urls == {e.detail_url[1] : e \in Entries}

SeqsUpTo(S, n) == UNION {[1..k -> S] : k \in 0..n}

ICT == <<"I", "C", "T">>
IC == <<"I", "C">>
Inf == <<"I", "n", "f">>
Med == <<"M", "e", "d">>

Goal(n, text) == [nummer |-> n, beschreibung |-> text]

PageA ==
    [publish |-> [div |-> TRUE, match |-> Some(<<"15", "01", "2024">>)],
     handlungsziele |-> <<Goal("1", "g1"), Goal("2", "g2")>>,
     berufe |-> <<Inf, ICT>>]
PageB ==
    [publish |-> [div |-> TRUE, match |-> None],
     handlungsziele |-> <<Goal("1", "g1")>>,
     berufe |-> <<Inf>>]
PageC ==
    [publish |-> [div |-> TRUE, match |-> Some(<<"01", "03", "2023">>)],
     handlungsziele |-> <<>>,
     berufe |-> <<>>]
PageD ==
    [publish |-> [div |-> FALSE, match |-> None],
     handlungsziele |-> <<Goal("1", "g3")>>,
     berufe |-> <<Med, IC, ICT>>]

Site1 ==
    [u \in Urls |->
        CASE u[2] = <<"1", "0", "7">> /\ u[3] = <<"2">> -> PageA
          [] u[2] = <<"1", "0", "7">> /\ u[3] = <<"1", "0">> -> PageB
          [] u[2] = <<"1", "0", "0", "0">> /\ u[3] = <<"2">> -> PageC
          [] OTHER -> PageD]
Site2 ==
    [u \in Urls |->
        CASE u[2] = <<"1", "0", "7">> /\ u[3] = <<"2">> -> PageD
          [] u[2] = <<"1", "0", "7">> /\ u[3] = <<"1", "0">> -> PageA
          [] u[2] = <<"1", "0", "0", "0">> /\ u[3] = <<"2">> -> PageB
          [] OTHER -> PageA]

Sites == {Site1, Site2}

----------------------------------------------------------------------------
(* Detail extraction: scrape_module_detail *)

(* datetime.now().isoformat(): the date, then the time of day; [:10] of it *)
(* is the date                                                             *)
isoformat(t) == <<t \div DayLength, t % DayLength>>

Date(stamp) == stamp[1]

Sha256Prefix ==
    (<<"2024", "-", "01", "-", "15">> :> "bb10628e8f758901") @@
    (<<"2023", "-", "03", "-", "01">> :> "53da235dc21ba1e2")

(* a hash function that returns None for every date *)
HashOfNothing(pub_datum) == None

calculate_hash(pub_datum) ==
    IF pub_datum = <<>> THEN None ELSE Some(Sha256Prefix[pub_datum])

FormatDate(date) == <<date[3], "-", date[2], "-", date[1]>>

PublikationsDatum(page) ==
    IF page.publish.div /\ page.publish.match # None
    THEN Some(FormatDate(page.publish.match[1]))
    ELSE None

DetailsV2(page) ==
    [publikationsdatum |-> PublikationsDatum(page),
     content_hash |-> None,
     handlungsziele |-> Some(page.handlungsziele),
     berufe |-> Some(page.berufe),
     letzter_check |-> Some(isoformat(now))]

DetailsV3At(page, t) ==
    [publikationsdatum |-> PublikationsDatum(page),
     content_hash |->
        IF PublikationsDatum(page) # None
        THEN calculate_hash(PublikationsDatum(page)[1])
        ELSE None,
     handlungsziele |-> Some(page.handlungsziele),
     berufe |-> Some(page.berufe),
     letzter_check |-> Some(isoformat(t))]

DetailsV3(page) == DetailsV3At(page, now)

(* module.update(details): the keys of details overwrite, the others stay *)
Update(module, details) ==
    [module EXCEPT
        !.publikationsdatum =
            IF details.publikationsdatum # None THEN details.publikationsdatum ELSE @,
        !.content_hash =
            IF details.content_hash # None THEN details.content_hash ELSE @,
        !.handlungsziele = details.handlungsziele,
        !.berufe = details.berufe,
        !.letzter_check = details.letzter_check]

----------------------------------------------------------------------------
(* Deduplication: scrape_module_list *)

ModuleId(mod) == mod.nummer \o <<"-">> \o mod.version

RECURSIVE DedupFrom(_, _)
DedupFrom(rest, unique_modules) ==
    IF rest = <<>> THEN unique_modules
    ELSE LET mod == Head(rest)
             seen == \E u \in Range(unique_modules) : ModuleId(u) = ModuleId(mod)
         IN  DedupFrom(Tail(rest),
                       IF seen THEN unique_modules ELSE Append(unique_modules, mod))

RECURSIVE KeepLastFrom(_, _)
KeepLastFrom(rest, unique_modules) ==
    IF rest = <<>> THEN unique_modules
    ELSE LET mod == Head(rest)
             hit == {k \in DOMAIN unique_modules :
                        ModuleId(unique_modules[k]) = ModuleId(mod)}
         IN  KeepLastFrom(Tail(rest),
                          IF hit = {} THEN Append(unique_modules, mod)
                          ELSE [unique_modules EXCEPT ![Min(hit)] = mod])

DeduplicateKeepLast(list) == KeepLastFrom(list, <<>>)
Deduplicate(list) == DedupFrom(list, <<>>)

----------------------------------------------------------------------------
(* Aggregation: group_by_master, create_beruf_mapping, save_final_json *)

RECURSIVE FirstSeen(_, _)
FirstSeen(list, acc) ==
    IF list = <<>> THEN acc
    ELSE FirstSeen(Tail(list),
                   IF Head(list) \in Range(acc) THEN acc ELSE Append(acc, Head(list)))

group_by_master(mods) ==
    LET keys == FirstSeen([k \in DOMAIN mods |-> mods[k].nummer], <<>>)
    IN  [k \in DOMAIN keys |->
            [nummer |-> keys[k],
             versionen |->
                SortByVersion(SelectSeq(mods, LAMBDA m : m.nummer = keys[k]))]]

BerufMappingUnsorted(berufe) ==
    LET unique_berufe == FirstSeen(berufe, <<>>)
    IN  [k \in DOMAIN unique_berufe |-> [id |-> k, name |-> unique_berufe[k]]]

BerufMappingFromZero(berufe) ==
    LET unique_berufe == SortedStrings(Range(berufe))
    IN  [k \in DOMAIN unique_berufe |-> [id |-> k - 1, name |-> unique_berufe[k]]]

create_beruf_mapping(berufe) ==
    LET unique_berufe == SortedStrings(Range(berufe))
    IN  [k \in DOMAIN unique_berufe |-> [id |-> k, name |-> unique_berufe[k]]]

(* beruf_to_id.get(b) for every name b: None for a name that is no key *)
BerufIdsOrNone(berufe, liste) ==
    [j \in DOMAIN berufe |->
        LET hit == {k \in DOMAIN liste : liste[k].name = berufe[j]}
        IN  IF hit = {} THEN None ELSE liste[CHOOSE k \in hit : TRUE].id]

(* beruf_to_id.get(b) for the names b that are keys of beruf_to_id *)
RECURSIVE BerufIds(_, _)
BerufIds(berufe, liste) ==
    IF berufe = <<>> THEN <<>>
    ELSE LET hit == {k \in DOMAIN liste : liste[k].name = Head(berufe)}
             rest == BerufIds(Tail(berufe), liste)
         IN  IF hit = {} THEN rest
             ELSE <<liste[CHOOSE k \in hit : \A j \in hit : j <= k].id>> \o rest

ReplaceBerufe(ver, liste) ==
    [ver EXCEPT
        !.berufe_ids = IF ver.berufe # None THEN Some(BerufIds(ver.berufe[1], liste)) ELSE @,
        !.berufe = None,
        !.detail_url = None]

RECURSIVE SumVersionen(_)
SumVersionen(ms) ==
    IF ms = <<>> THEN 0 ELSE ms[1].anzahl_versionen + SumVersionen(Tail(ms))

MasterTitleOldest(versionen) == versionen[1].titel
MasterTitle(versionen) == versionen[Len(versionen)].titel

(* lines 186-199: one entry of the snapshot per master, versions rewritten *)
MasterModule(master, liste) ==
    LET versionen ==
            [j \in DOMAIN master.versionen |-> ReplaceBerufe(master.versionen[j], liste)]
    IN  [master_id |-> <<"M">> \o master.nummer,
         nummer |-> master.nummer,
         titel_master |-> MasterTitle(versionen),
         anzahl_versionen |-> Len(versionen),
         versionen |-> versionen]

(* sorted and master_modules are each computed once and then named *)
FinalJson(grouped, liste, t) ==
    CHOOSE data \in
        {[meta |->
            [erstellt |-> isoformat(t),
             anzahl_master_module |-> Len(master_modules),
             anzahl_versionen_total |-> SumVersionen(master_modules),
             anzahl_berufe |-> Len(liste)],
          berufe |-> liste,
          module |-> master_modules] :
            master_modules \in
                {[k \in DOMAIN sorted |-> MasterModule(sorted[k], liste)] :
                    sorted \in {SortByNummer(grouped)}}} : TRUE

save_final_json_v3(grouped, liste) == FinalJson(grouped, liste, now)

----------------------------------------------------------------------------
(* scrape_with_retry: one activation, one action per attempt *)

Errors == {"TimeoutError", "NetworkError"}

(* main only prints the error of an item, so the crawl runs take one kind *)
ErrorsHere == IF pc = "retry" THEN Errors ELSE {"TimeoutError"}

NoCall == [status |-> "idle", url |-> <<>>, max_retries |-> 0, attempt |-> 0, tries |-> 0,
           errors |-> <<>>, sleeps |-> <<>>, html |-> None, raised |-> None]

BeginCall(url, max_retries) ==
    [status |-> "running", url |-> url, max_retries |-> max_retries, attempt |-> 0,
     tries |-> 0, errors |-> <<>>, sleeps |-> <<>>, html |-> None, raised |-> None]

RECURSIVE Pow2(_)
Pow2(n) == IF n = 0 THEN 1 ELSE 2 * Pow2(n - 1)

wait_time(v, attempt) ==
    IF v \in {"v2", "v3"} THEN RETRY_DELAY * Pow2(attempt) ELSE RETRY_DELAY

ListUrl == <<BASE_URL>>

Content(url) == IF url = ListUrl THEN "list" ELSE site[url]

RetryAlways(attempt, max_retries) == attempt < max_retries
MayRetry(attempt, max_retries) == attempt < max_retries - 1

(* the attempt succeeds: return html *)
Returned(c) ==
    [c EXCEPT !.tries = @ + 1, !.status = "returned", !.html = Some(Content(c.url))]

(* the attempt raises e: sleep and go on with the next attempt, or re-raise; *)
(* the for loop running out returns None                                     *)
Failed(c, e) ==
    IF MayRetry(c.attempt, c.max_retries)
    THEN [c EXCEPT !.tries = @ + 1,
                   !.errors = Append(@, e),
                   !.sleeps = Append(@, wait_time(variant, c.attempt)),
                   !.attempt = @ + 1,
                   !.status = IF c.attempt + 1 < c.max_retries THEN "running" ELSE "returned"]
    ELSE [c EXCEPT !.tries = @ + 1, !.errors = Append(@, e),
                   !.status = "raised", !.raised = Some(e)]

AttemptOk ==
    /\ call.status = "running"
    /\ call' = Returned(call)
    /\ UNCHANGED <<variant, site, pc, aggVars, diffVars, parVars, envVars, progress, counters, file,
                   completed_ids, failed_ids, batch_counter, i, runs, loaded, attempted,
                   interrupted_after, storeVars, poolVars>>

AttemptFail ==
    /\ call.status = "running"
    /\ \E e \in ErrorsHere : call' = Failed(call, e)
    /\ UNCHANGED <<variant, site, pc, aggVars, diffVars, parVars, envVars, progress, counters, file,
                   completed_ids, failed_ids, batch_counter, i, runs, loaded, attempted,
                   interrupted_after, storeVars, poolVars>>

----------------------------------------------------------------------------
(* The checkpoint: load_progress, save_progress *)

EmptyProgress == [completed |-> <<>>, failed |-> <<>>]

NoCounters == [completed |-> 0, failed |-> 0]

CrawlIdle ==
    /\ progress = EmptyProgress
    /\ counters = NoCounters
    /\ file = None
    /\ completed_ids = {}
    /\ failed_ids = {}
    /\ batch_counter = 0
    /\ i = 1
    /\ call = NoCall
    /\ runs = 1
    /\ loaded = None
    /\ attempted = {}
    /\ interrupted_after = -1

(* no thread pool *)
ParIdle == futures = <<>> /\ down = {}

(* no write has failed *)
EnvIdle == disk_error = None

(* the clock at its start, no backup, no earlier run *)
StoreIdle == now = 0 /\ backups = <<>> /\ earlier = <<>>

(* no worker thread *)
PoolIdle == threads = <<>> /\ progress_lock = 0

(* a file that was truncated by open(..., 'w') and not written to its end *)
Torn == [torn |-> TRUE]

LoadProgressEmpty == [completed |-> <<>>, failed |-> <<>>, modules |-> <<>>]
load_progress ==
    IF file # None THEN file[1]
    ELSE [completed |-> <<>>, failed |-> <<>>, modules |-> <<>>]

save_progress(prog, mods) ==
    Some([completed |-> prog.completed, failed |-> prog.failed, modules |-> mods])

(* list.remove(x): the first occurrence; the caller checks that there is one *)
RemoveFirst(list, x) ==
    LET p == Min({k \in DOMAIN list : list[k] = x})
    IN  SubSeq(list, 1, p - 1) \o SubSeq(list, p + 1, Len(list))

----------------------------------------------------------------------------
(* module_scraper_v2.py: main, the resumable crawl *)

save_final_json_v2(mods, liste) ==
    LET out == [k \in DOMAIN mods |-> ReplaceBerufe(mods[k], liste)]
    IN  [meta |-> [erstellt |-> isoformat(now),
                   anzahl_module |-> Len(out), anzahl_berufe |-> Len(liste)],
         berufe |-> liste,
         module |-> out]

(* lines 193-203: the state the loop starts from *)
EnterLoop(prog) ==
    /\ completed_ids' = Range(prog.completed)
    /\ failed_ids' = Range(prog.failed)
    /\ all_berufe' = <<>>
    /\ batch_counter' = 0
    /\ i' = 1
    /\ pc' = "loop"

V2Start ==
    /\ variant = "v2" /\ pc = "start"
    /\ file # Some(Torn)
    /\ loaded' = file
    /\ progress' = [completed |-> load_progress.completed, failed |-> load_progress.failed]
    /\ IF load_progress.modules = <<>>
       THEN /\ call' = BeginCall(ListUrl, MAX_RETRIES)
            /\ pc' = "list"
            /\ UNCHANGED <<modules, completed_ids, failed_ids, all_berufe, batch_counter, i, storeVars, poolVars>>
       ELSE /\ modules' = load_progress.modules
            /\ EnterLoop(load_progress)
            /\ UNCHANGED call
    /\ UNCHANGED <<variant, site, all_modules, masters, berufe_liste, output, diffVars, parVars, envVars,
                   counters, file, runs, attempted, interrupted_after, storeVars, poolVars>>

(* scrape_module_list of v2 keeps every entry of the page; then lines 185-186 *)
V2ListDone ==
    /\ variant = "v2" /\ pc = "list" /\ call.status = "returned"
    /\ modules' = all_modules
    /\ file' = save_progress(progress, modules')
    /\ EnterLoop(progress)
    /\ call' = NoCall
    /\ UNCHANGED <<variant, site, all_modules, masters, berufe_liste, output, diffVars, parVars, envVars,
                   progress, counters, runs, loaded, attempted, interrupted_after, storeVars, poolVars>>

(* the list page cannot be retrieved: the exception leaves main *)
ListFail ==
    /\ pc = "list" /\ call.status = "raised"
    /\ pc' = "aborted"
    /\ call' = NoCall
    /\ UNCHANGED <<variant, site, aggVars, diffVars, parVars, envVars, progress, counters, file,
                   completed_ids, failed_ids, batch_counter, i, runs, loaded, attempted,
                   interrupted_after, storeVars, poolVars>>

(* line 209 *)
SkipItemOrFailed(module_id) == module_id \in completed_ids \cup failed_ids
SkipItem(module_id) == module_id \in completed_ids

V2Skip ==
    /\ variant = "v2" /\ pc = "loop" /\ i <= Len(modules)
    /\ SkipItem(ModuleId(modules[i]))
    /\ i' = i + 1
    /\ UNCHANGED <<variant, site, pc, aggVars, diffVars, parVars, envVars, progress, counters, file,
                   completed_ids, failed_ids, batch_counter, call, runs, loaded, attempted,
                   interrupted_after, storeVars, poolVars>>

V2BeginDetail ==
    /\ variant = "v2" /\ pc = "loop" /\ i <= Len(modules)
    /\ ~SkipItem(ModuleId(modules[i]))
    /\ call' = BeginCall(modules[i].detail_url[1], MAX_RETRIES)
    /\ attempted' = attempted \cup {i}
    /\ pc' = "detail"
    /\ UNCHANGED <<variant, site, aggVars, diffVars, parVars, envVars, progress, counters, file,
                   completed_ids, failed_ids, batch_counter, i, runs, loaded,
                   interrupted_after, storeVars, poolVars>>

(* lines 215-230: the try block after a successful retrieval.  remove()     *)
(* raises ValueError when the key is in failed_ids but no longer in the     *)
(* list; the except clause of line 232 takes it.                            *)
V2DetailOk ==
    /\ variant = "v2" /\ pc = "detail" /\ call.status = "returned" /\ call.html # None
    /\ LET module_id == ModuleId(modules[i])
           details == DetailsV2(call.html[1])
           completed == Append(progress.completed, module_id)
           raises == module_id \in failed_ids /\ module_id \notin Range(progress.failed)
           failed == IF module_id \in failed_ids /\ ~raises
                     THEN RemoveFirst(progress.failed, module_id)
                     ELSE progress.failed
       IN  /\ modules' = [modules EXCEPT ![i] = Update(@, details)]
           /\ all_berufe' = all_berufe \o details.berufe[1]
           /\ IF raises
              THEN /\ progress' = [completed |-> completed,
                                   failed |-> Append(progress.failed, module_id)]
                   /\ UNCHANGED <<batch_counter, file, storeVars, poolVars>>
              ELSE /\ progress' = [completed |-> completed, failed |-> failed]
                   /\ IF batch_counter + 1 >= BATCH_SIZE
                      THEN /\ file' = save_progress(progress', modules')
                           /\ batch_counter' = 0
                      ELSE /\ batch_counter' = batch_counter + 1
                           /\ UNCHANGED file
    /\ i' = i + 1
    /\ pc' = "loop"
    /\ call' = NoCall
    /\ UNCHANGED <<variant, site, all_modules, masters, berufe_liste, output, diffVars, parVars, envVars,
                   counters, completed_ids, failed_ids, runs, loaded, attempted,
                   interrupted_after, storeVars, poolVars>>

(* lines 232-234: the retrieval raised (or returned None, which the parser rejects) *)
V2DetailFailAborts ==
    /\ variant = "v2" /\ pc = "detail"
    /\ call.status = "raised" \/ (call.status = "returned" /\ call.html = None)
    /\ pc' = "aborted"
    /\ call' = NoCall
    /\ UNCHANGED <<variant, site, aggVars, diffVars, parVars, envVars, progress, counters, file, completed_ids,
                   failed_ids, batch_counter, i, runs, loaded, attempted, interrupted_after, storeVars, poolVars>>

V2DetailFail ==
    /\ variant = "v2" /\ pc = "detail"
    /\ call.status = "raised" \/ (call.status = "returned" /\ call.html = None)
    /\ progress' = [progress EXCEPT !.failed = Append(@, ModuleId(modules[i]))]
    /\ i' = i + 1
    /\ pc' = "loop"
    /\ call' = NoCall
    /\ UNCHANGED <<variant, site, aggVars, diffVars, parVars, envVars, counters, file, completed_ids,
                   failed_ids, batch_counter, runs, loaded, attempted, interrupted_after, storeVars, poolVars>>

V2FinalSave ==
    /\ variant = "v2" /\ pc = "loop" /\ i > Len(modules)
    /\ file' = save_progress(progress, modules)
    /\ pc' = "snapshot"
    /\ UNCHANGED <<variant, site, aggVars, diffVars, parVars, envVars, progress, counters, completed_ids,
                   failed_ids, batch_counter, i, call, runs, loaded, attempted,
                   interrupted_after, storeVars, poolVars>>

V2Snapshot ==
    /\ variant = "v2" /\ pc = "snapshot"
    /\ berufe_liste' = create_beruf_mapping(all_berufe)
    /\ output' = Some(save_final_json_v2(modules, berufe_liste'))
    /\ modules' = output'[1].module
    /\ pc' = "cleanup"
    /\ UNCHANGED <<variant, site, all_modules, all_berufe, masters, diffVars, parVars, envVars, crawlVars, storeVars, poolVars>>

(* lines 247-248 of v2, 272-273 of v3 *)
CleanupKeepsFile ==
    /\ pc = "cleanup"
    /\ pc' = "done"
    /\ UNCHANGED <<variant, site, aggVars, diffVars, parVars, envVars, crawlVars, storeVars, poolVars>>

Cleanup ==
    /\ pc = "cleanup"
    /\ file' = None
    /\ pc' = "done"
    /\ UNCHANGED <<variant, site, aggVars, diffVars, parVars, envVars, progress, counters, completed_ids,
                   failed_ids, batch_counter, i, call, runs, loaded, attempted,
                   interrupted_after, storeVars, poolVars>>

----------------------------------------------------------------------------
(* module_scraper_v3.py: main *)

V3Start ==
    /\ variant = "v3" /\ pc = "start"
    /\ call' = BeginCall(ListUrl, MAX_RETRIES)
    /\ pc' = "list"
    /\ UNCHANGED <<variant, site, aggVars, diffVars, parVars, envVars, progress, counters, file,
                   completed_ids, failed_ids, batch_counter, i, runs, loaded, attempted,
                   interrupted_after, storeVars, poolVars>>

V3ListDone ==
    /\ variant = "v3" /\ pc = "list" /\ call.status = "returned"
    /\ modules' = Deduplicate(all_modules)
    /\ all_berufe' = <<>>
    /\ counters' = [completed |-> 0, failed |-> 0]
    /\ i' = 1
    /\ pc' = "loop"
    /\ call' = NoCall
    /\ UNCHANGED <<variant, site, all_modules, masters, berufe_liste, output, diffVars, parVars, envVars,
                   progress, file, completed_ids, failed_ids, batch_counter, runs, loaded,
                   attempted, interrupted_after, storeVars, poolVars>>

V3BeginDetail ==
    /\ variant = "v3" /\ pc = "loop" /\ i <= Len(modules)
    /\ call' = BeginCall(modules[i].detail_url[1], MAX_RETRIES)
    /\ attempted' = attempted \cup {i}
    /\ pc' = "detail"
    /\ UNCHANGED <<variant, site, aggVars, diffVars, parVars, envVars, progress, counters, file,
                   completed_ids, failed_ids, batch_counter, i, runs, loaded,
                   interrupted_after, storeVars, poolVars>>

(* lines 245-253: the batch branch only prints *)
V3DetailOk ==
    /\ variant = "v3" /\ pc = "detail" /\ call.status = "returned" /\ call.html # None
    /\ LET details == DetailsV3(call.html[1])
       IN  /\ modules' = [modules EXCEPT ![i] = Update(@, details)]
           /\ all_berufe' = all_berufe \o details.berufe[1]
    /\ counters' = [counters EXCEPT !.completed = @ + 1]
    /\ i' = i + 1
    /\ pc' = "loop"
    /\ call' = NoCall
    /\ UNCHANGED <<variant, site, all_modules, masters, berufe_liste, output, diffVars, parVars, envVars,
                   progress, file, completed_ids, failed_ids, batch_counter, runs, loaded,
                   attempted, interrupted_after, storeVars, poolVars>>

V3DetailFail ==
    /\ variant = "v3" /\ pc = "detail"
    /\ call.status = "raised" \/ (call.status = "returned" /\ call.html = None)
    /\ counters' = [counters EXCEPT !.failed = @ + 1]
    /\ i' = i + 1
    /\ pc' = "loop"
    /\ call' = NoCall
    /\ UNCHANGED <<variant, site, aggVars, diffVars, parVars, envVars, progress, file, completed_ids,
                   failed_ids, batch_counter, runs, loaded, attempted, interrupted_after, storeVars, poolVars>>

V3Group ==
    /\ variant = "v3" /\ pc = "loop" /\ i > Len(modules)
    /\ masters' = group_by_master(modules)
    /\ pc' = "snapshot"
    /\ UNCHANGED <<variant, site, all_modules, modules, all_berufe, berufe_liste, output,
                   diffVars, parVars, envVars, crawlVars, storeVars, poolVars>>

V3Snapshot ==
    /\ variant = "v3" /\ pc = "snapshot"
    /\ berufe_liste' = create_beruf_mapping(all_berufe)
    /\ output' = Some(save_final_json_v3(masters, berufe_liste'))
    /\ pc' = "cleanup"
    /\ UNCHANGED <<variant, site, all_modules, modules, all_berufe, masters, diffVars, parVars, envVars,
                   crawlVars, storeVars, poolVars>>

----------------------------------------------------------------------------
(* The process is killed (KeyboardInterrupt, crash) and the script is       *)
(* started again: the files stay, the memory of the process is lost.        *)

Finished == Cardinality(attempted) - (IF pc = "detail" THEN 1 ELSE 0)

Interrupt ==
    /\ pc \notin {"start", "done", "aborted"}
    /\ runs < MaxRuns
    /\ runs' = runs + 1
    /\ interrupted_after' = Finished
    /\ pc' = "start"
    /\ modules' = <<>> /\ all_berufe' = <<>> /\ masters' = <<>> /\ berufe_liste' = <<>>
    /\ progress' = EmptyProgress
    /\ counters' = NoCounters
    /\ completed_ids' = {} /\ failed_ids' = {}
    /\ batch_counter' = 0
    /\ i' = 1
    /\ call' = NoCall
    /\ loaded' = None
    /\ attempted' = {}
    /\ disk_error' = None
    /\ UNCHANGED <<variant, site, all_modules, output, diffVars, parVars, file, storeVars, poolVars>>

CrawlEntries ==
    {Module(<<"1", "0", "7">>, <<"2">>, "A"),
     Module(<<"1", "0", "7">>, <<"1", "0">>, "B"),
     Module(<<"1", "0", "0", "0">>, <<"2">>, "A")}

Init ==
    /\ StoreIdle
    /\ PoolIdle
    /\ variant \in {"v2", "v3"}
    /\ site = Site1
    /\ pc = "start"
    /\ all_modules \in SeqsUpTo(CrawlEntries, MaxList)
    /\ modules = <<>> /\ all_berufe = <<>> /\ masters = <<>> /\ berufe_liste = <<>>
    /\ output = None
    /\ old_db = None /\ new_db = None /\ changes = None /\ report = None
    /\ CrawlIdle
    /\ ParIdle
    /\ EnvIdle

Next ==
    \/ AttemptOk \/ AttemptFail \/ ListFail \/ Cleanup \/ Interrupt
    \/ V2Start \/ V2ListDone \/ V2Skip \/ V2BeginDetail \/ V2DetailOk \/ V2DetailFail
    \/ V2FinalSave \/ V2Snapshot
    \/ V3Start \/ V3ListDone \/ V3BeginDetail \/ V3DetailOk \/ V3DetailFail
    \/ V3Group \/ V3Snapshot

Spec == Init /\ [][Next]_vars

(* One run from a clean start to its end.  With no checkpoint at the start  *)
(* completed_ids is empty and V2Skip is never enabled.  A sequential script *)
(* keeps running and every retrieval returns or raises (timeout=30000), so  *)
(* the next step is always taken.                                           *)
NextRun ==
    \/ AttemptOk \/ AttemptFail \/ ListFail \/ Cleanup
    \/ V2Start \/ V2ListDone \/ V2BeginDetail \/ V2DetailOk \/ V2DetailFail
    \/ V2FinalSave \/ V2Snapshot
    \/ V3Start \/ V3ListDone \/ V3BeginDetail \/ V3DetailOk \/ V3DetailFail
    \/ V3Group \/ V3Snapshot

FairSpec == Init /\ [][NextRun]_vars /\ WF_vars(NextRun)

(* scrape_with_retry alone, in each of the four scripts that define it *)
InitRetry ==
    /\ StoreIdle
    /\ PoolIdle
    /\ variant \in {"v2", "v3", "parallel", "phase1"}
    /\ site = Site1
    /\ pc = "retry"
    /\ \E url \in Urls \cup {ListUrl}, max_retries \in 1..MAX_RETRIES :
        call = BeginCall(url, max_retries)
    /\ all_modules = <<>> /\ modules = <<>> /\ all_berufe = <<>>
    /\ masters = <<>> /\ berufe_liste = <<>> /\ output = None
    /\ old_db = None /\ new_db = None /\ changes = None /\ report = None
    /\ progress = EmptyProgress /\ counters = NoCounters /\ file = None
    /\ completed_ids = {} /\ failed_ids = {} /\ batch_counter = 0 /\ i = 1
    /\ runs = 1 /\ loaded = None /\ attempted = {} /\ interrupted_after = -1
    /\ ParIdle
    /\ EnvIdle

NextRetry == AttemptOk \/ AttemptFail

SpecRetry == InitRetry /\ [][NextRetry]_vars

----------------------------------------------------------------------------
(* The pipeline of module_scraper_v3.py in big steps: list page with       *)
(* deduplication, detail loop, grouping, snapshot.  The detail loop is     *)
(* taken as one step here, with the set of items whose retrieval succeeds  *)
(* as its input; Spec below runs it item by item.                          *)

RECURSIVE CollectBerufe(_, _)
CollectBerufe(mods, ok) ==
    IF mods = <<>> THEN <<>>
    ELSE CollectBerufe(SubSeq(mods, 1, Len(mods) - 1), ok)
         \o (IF Len(mods) \in ok THEN DetailsV3(site[mods[Len(mods)].detail_url[1]]).berufe[1]
             ELSE <<>>)

InitAgg ==
    /\ StoreIdle
    /\ PoolIdle
    /\ variant = "v3"
    /\ site = Site1
    /\ pc = "list"
    /\ all_modules \in SeqsUpTo(Entries, MaxRaw)
    /\ modules = <<>>
    /\ all_berufe = <<>>
    /\ masters = <<>>
    /\ berufe_liste = <<>>
    /\ output = None
    /\ old_db = None /\ new_db = None /\ changes = None /\ report = None
    /\ CrawlIdle
    /\ ParIdle
    /\ EnvIdle

AggList ==
    /\ pc = "list"
    /\ modules' = Deduplicate(all_modules)
    /\ pc' = "details"
    /\ UNCHANGED <<variant, site, all_modules, all_berufe, masters, berufe_liste, output, diffVars, parVars, envVars, crawlVars, storeVars, poolVars>>

AggDetails ==
    /\ pc = "details"
    /\ \E ok \in SUBSET DOMAIN modules :
        /\ modules' = [k \in DOMAIN modules |->
                        IF k \in ok
                        THEN Update(modules[k], DetailsV3(site[modules[k].detail_url[1]]))
                        ELSE modules[k]]
        /\ all_berufe' = CollectBerufe(modules, ok)
    /\ pc' = "group"
    /\ UNCHANGED <<variant, site, all_modules, masters, berufe_liste, output, diffVars, parVars, envVars, crawlVars, storeVars, poolVars>>

AggGroup ==
    /\ pc = "group"
    /\ masters' = group_by_master(modules)
    /\ pc' = "save"
    /\ UNCHANGED <<variant, site, all_modules, modules, all_berufe, berufe_liste, output, diffVars, parVars, envVars, crawlVars, storeVars, poolVars>>

AggSave ==
    /\ pc = "save"
    /\ berufe_liste' = create_beruf_mapping(all_berufe)
    /\ output' = Some(save_final_json_v3(masters, berufe_liste'))
    /\ pc' = "done"
    /\ UNCHANGED <<variant, site, all_modules, modules, all_berufe, masters, diffVars, parVars, envVars, crawlVars, storeVars, poolVars>>

NextAgg == AggList \/ AggDetails \/ AggGroup \/ AggSave

SpecAgg == InitAgg /\ [][NextAgg]_vars

----------------------------------------------------------------------------
(* Change detection: compare_databases of create_update_report.py *)

(* a key without the version *)
DiffKeyMaster(master, version) == master.nummer
DiffKey(master, version) == master.nummer \o <<"-", "V">> \o version.version

(* the (master, version) pairs of a snapshot in iteration order *)
RECURSIVE Flatten(_)
Flatten(module_list) ==
    IF module_list = <<>> THEN <<>>
    ELSE LET master == module_list[Len(module_list)]
         IN  Flatten(SubSeq(module_list, 1, Len(module_list) - 1))
             \o [j \in DOMAIN master.versionen |->
                    [key |-> DiffKey(master, master.versionen[j]),
                     master |-> master,
                     version |-> master.versionen[j]]]

(* a dict filled by assignment: a repeated key keeps its place and takes the later value *)
RECURSIVE DictFrom(_, _)
DictFrom(items, dict) ==
    IF items = <<>> THEN dict
    ELSE LET hit == {k \in DOMAIN dict : dict[k].key = Head(items).key}
         IN  DictFrom(Tail(items),
                      IF hit = {} THEN Append(dict, Head(items))
                      ELSE [dict EXCEPT ![Min(hit)] = Head(items)])

HasKey(dict, key) == \E k \in DOMAIN dict : dict[k].key = key
Lookup(dict, key) == dict[CHOOSE k \in DOMAIN dict : dict[k].key = key]

HashDiffersNonNull(old_hash, new_hash) ==
    old_hash # None /\ new_hash # None /\ old_hash # new_hash
HashDiffers(old_hash, new_hash) == old_hash # new_hash

RECURSIVE KeysNotIn(_, _)
KeysNotIn(dict, other) ==
    IF dict = <<>> THEN <<>>
    ELSE (IF HasKey(other, Head(dict).key) THEN <<>> ELSE <<Head(dict).key>>)
         \o KeysNotIn(Tail(dict), other)

RECURSIVE Geaenderte(_, _)
Geaenderte(new_modules, old_modules) ==
    IF new_modules = <<>> THEN <<>>
    ELSE LET key == Head(new_modules).key
             new == Head(new_modules)
         IN  (IF HasKey(old_modules, key)
                 /\ HashDiffers(Lookup(old_modules, key).version.content_hash,
                                new.version.content_hash)
              THEN <<[modul |-> key,
                      alt_datum |-> Lookup(old_modules, key).version.publikationsdatum,
                      neu_datum |-> new.version.publikationsdatum,
                      titel |-> new.master.titel_master]>>
              ELSE <<>>)
             \o Geaenderte(Tail(new_modules), old_modules)

(* lines 86-100: meta.get(name, 0) for a number that the meta may lack *)
MetaGet(meta, name) == IF name \in DOMAIN meta THEN meta[name] ELSE 0

Statistik(db) ==
    [master_module |-> db.meta.anzahl_master_module,
     versionen |-> db.meta.anzahl_versionen_total,
     berufe |-> db.meta.anzahl_berufe,
     handlungsziele |-> MetaGet(db.meta, "anzahl_handlungsziele_total"),
     kenntnisse |-> MetaGet(db.meta, "anzahl_kenntnisse_total")]

(* the names that only one of the two snapshots has *)
BerufeDiffSymmetric(old, new) ==
    LET old_berufe == {old.berufe[k].name : k \in DOMAIN old.berufe}
        new_berufe == {new.berufe[k].name : k \in DOMAIN new.berufe}
    IN  SortedStrings((new_berufe \ old_berufe) \cup (old_berufe \ new_berufe))

(* lines 80-83: the names of new that are not names of old, sorted *)
NeueBerufe(old, new) ==
    LET old_berufe == {old.berufe[k].name : k \in DOMAIN old.berufe}
        new_berufe == {new.berufe[k].name : k \in DOMAIN new.berufe}
    IN  SortedStrings(new_berufe \ old_berufe)

compare_databases(old, new) ==
    LET old_modules == DictFrom(Flatten(old.module), <<>>)
        new_modules == DictFrom(Flatten(new.module), <<>>)
    IN  [neue_module |-> KeysNotIn(new_modules, old_modules),
         geaenderte_module |-> Geaenderte(new_modules, old_modules),
         geloeschte_module |-> KeysNotIn(old_modules, new_modules),
         neue_berufe |-> NeueBerufe(old, new),
         statistik_alt |-> Statistik(old),
         statistik_neu |-> Statistik(new)]

(* create_report: the lines of the report as data.  A line of the summary  *)
(* is a label with its number.                                             *)
Zusammenfassung(ch) ==
    LET total_changes ==
            Len(ch.neue_module) + Len(ch.geaenderte_module) + Len(ch.geloeschte_module)
    IN  IF total_changes = 0
        THEN <<<<"Keine Aenderungen">>>>
        ELSE <<<<"Aenderungen", total_changes>>,
               <<"Neue Module", Len(ch.neue_module)>>,
               <<"Geaenderte Module", Len(ch.geaenderte_module)>>,
               <<"Geloeschte Module", Len(ch.geloeschte_module)>>,
               <<"Neue Berufe", Len(ch.neue_berufe)>>>>

StatistikVergleich(ch) ==
    [key \in DOMAIN ch.statistik_alt |->
        [alt |-> ch.statistik_alt[key], neu |-> ch.statistik_neu[key],
         diff |-> ch.statistik_neu[key] - ch.statistik_alt[key]]]

(* sorted(changes['geaenderte_module'], key=lambda x: x['modul']) *)
SortedByModul(list) ==
    LET keys == SortedStrings({list[k].modul : k \in DOMAIN list})
    IN  [j \in DOMAIN keys |-> list[Min({k \in DOMAIN list : list[k].modul = keys[j]})]]

(* a section is there when its category is not empty *)
Section(items) == IF items = <<>> THEN None ELSE Some(items)

create_report(ch, old_date, new_date) ==
    [update_datum |-> new_date,
     vorherige_version |-> old_date,
     zusammenfassung |-> Zusammenfassung(ch),
     statistik |-> StatistikVergleich(ch),
     neue_module |-> Section(SortedStrings(Range(ch.neue_module))),
     geaenderte_module |-> Section(SortedByModul(ch.geaenderte_module)),
     geloeschte_module |-> Section(SortedStrings(Range(ch.geloeschte_module))),
     neue_berufe |-> Section(ch.neue_berufe)]

(* The snapshots the pipeline can have written: for each key of the catalog *)
(* the entry is not listed, or its retrieval failed, or it has one of the   *)
(* pages.                                                                   *)

DiffKeys ==
    <<Module(<<"1", "0", "7">>, <<"2">>, "A"),
      Module(<<"1", "0", "7">>, <<"1", "0">>, "B"),
      Module(<<"1", "0", "0", "0">>, <<"2">>, "A")>>

PageChoices == {"unlisted", "failed", "A", "B", "C", "D"}

PageNamed(name) ==
    CASE name = "A" -> PageA [] name = "B" -> PageB [] name = "C" -> PageC [] OTHER -> PageD

RECURSIVE Crawled(_, _)
Crawled(entries, choice) ==
    IF entries = <<>> THEN <<>>
    ELSE LET k == Len(entries)
             rest == Crawled(SubSeq(entries, 1, k - 1), choice)
         IN  CASE choice[k] = "unlisted" -> rest
               [] choice[k] = "failed" -> Append(rest, entries[k])
               [] OTHER -> Append(rest, Update(entries[k], DetailsV3At(PageNamed(choice[k]), 0)))

RECURSIVE BerufeOf(_)
BerufeOf(mods) ==
    IF mods = <<>> THEN <<>>
    ELSE (IF Head(mods).berufe = None THEN <<>> ELSE Head(mods).berufe[1])
         \o BerufeOf(Tail(mods))

SnapshotOf(choice) ==
    LET mods == Crawled(DiffKeys, choice)
    IN  FinalJson(group_by_master(mods), create_beruf_mapping(BerufeOf(mods)), 0)

Snapshots == {SnapshotOf(choice) : choice \in [DOMAIN DiffKeys -> PageChoices]}

InitDiff ==
    /\ StoreIdle
    /\ PoolIdle
    /\ variant = "report"
    /\ site = Site1
    /\ pc = "load"
    /\ old_db \in Snapshots
    /\ new_db \in Snapshots
    /\ changes = None /\ report = None
    /\ all_modules = <<>> /\ modules = <<>> /\ all_berufe = <<>>
    /\ masters = <<>> /\ berufe_liste = <<>> /\ output = None
    /\ CrawlIdle
    /\ ParIdle
    /\ EnvIdle

Compare ==
    /\ pc = "load"
    /\ changes' = Some(compare_databases(old_db, new_db))
    /\ pc' = "compared"
    /\ UNCHANGED <<variant, site, aggVars, old_db, new_db, report, parVars, envVars,
                   crawlVars, storeVars, poolVars>>

(* main, lines 234-246: the report of the comparison *)
CreateReport ==
    /\ pc = "compared"
    /\ report' = Some(create_report(changes[1], Date(old_db.meta.erstellt),
                                    Date(new_db.meta.erstellt)))
    /\ pc' = "reported"
    /\ UNCHANGED <<variant, site, aggVars, old_db, new_db, changes, parVars, envVars,
                   crawlVars, storeVars, poolVars>>

NextDiff == Compare \/ CreateReport

SpecDiff == InitDiff /\ [][NextDiff]_vars

----------------------------------------------------------------------------
(* Claims *)

Key(mod) == <<mod.nummer, mod.version>>

FirstOccurrences(list) ==
    {k \in DOMAIN list : \A j \in 1..(k - 1) : Key(list[j]) # Key(list[k])}

Nth(S, n) == CHOOSE k \in S : Cardinality({j \in S : j < k}) = n - 1

(* C2: the deduplicated list holds, for every (module_number, version) key *)
(* of the input, exactly the first entry with that key, in the order of    *)
(* first occurrence.                                                       *)
C2_DedupFirstSeen ==
    pc = "details" =>
        LET first == FirstOccurrences(all_modules)
        IN  /\ Len(modules) = Cardinality(first)
            /\ \A n \in DOMAIN modules : modules[n] = all_modules[Nth(first, n)]
            /\ \A a, b \in DOMAIN modules : a # b => Key(modules[a]) # Key(modules[b])

C2_Witness ==
    /\ pc = "details"
    /\ Len(modules) = 2
    /\ Len(all_modules) = 3
    /\ \E j, k \in DOMAIN all_modules :
        j < k /\ Key(all_modules[j]) = Key(all_modules[k])
              /\ all_modules[j].titel # all_modules[k].titel

NummernOf(mods) == {mods[k].nummer : k \in DOMAIN mods}

(* C3: one master per distinct module_number, master_id = "M" + number,    *)
(* versions ascending by numeric version, version_count = number of its    *)
(* versions, title = title of its highest-numbered version, masters        *)
(* ascending by numeric module_number.                                     *)
C3_Aggregation ==
    pc = "done" =>
        LET out == output[1].module
        IN  /\ Len(out) = Cardinality(NummernOf(modules))
            /\ {out[k].nummer : k \in DOMAIN out} = NummernOf(modules)
            /\ \A a, b \in DOMAIN out : a < b => int(out[a].nummer) < int(out[b].nummer)
            /\ \A k \in DOMAIN out :
                LET m == out[k]
                    own == {j \in DOMAIN modules : modules[j].nummer = m.nummer}
                IN  /\ m.master_id = <<"M">> \o m.nummer
                    /\ m.anzahl_versionen = Cardinality(own)
                    /\ Len(m.versionen) = Cardinality(own)
                    /\ {Key(m.versionen[j]) : j \in DOMAIN m.versionen}
                           = {Key(modules[j]) : j \in own}
                    /\ \A a, b \in DOMAIN m.versionen :
                        a < b => int(m.versionen[a].version) < int(m.versionen[b].version)
                    /\ \E j \in own :
                        /\ \A h \in own : int(modules[h].version) <= int(modules[j].version)
                        /\ m.titel_master = modules[j].titel

C3_Witness ==
    /\ pc = "done"
    /\ Len(output[1].module) = 2
    /\ \E k \in DOMAIN output[1].module :
        /\ output[1].module[k].anzahl_versionen = 2
        /\ output[1].module[k].versionen[1].titel # output[1].module[k].versionen[2].titel
    /\ modules[1].nummer = <<"1", "0", "0", "0">>
    /\ modules[2].version = <<"1", "0">>

(* C4: profession names pairwise distinct, ids exactly 1..N with N the     *)
(* number of distinct names collected, ids increasing with the             *)
(* lexicographic order of the names.                                       *)
C4_ProfessionIds ==
    pc = "done" =>
        LET berufe == output[1].berufe
            N == Cardinality(Range(all_berufe))
        IN  /\ Len(berufe) = N
            /\ {berufe[k].name : k \in DOMAIN berufe} = Range(all_berufe)
            /\ {berufe[k].id : k \in DOMAIN berufe} = 1..N
            /\ \A a, b \in DOMAIN berufe :
                /\ a # b => berufe[a].name # berufe[b].name
                /\ StrLess(berufe[a].name, berufe[b].name) <=> berufe[a].id < berufe[b].id

C4_Witness ==
    /\ pc = "done"
    /\ Len(output[1].berufe) = 4
    /\ Len(all_berufe) > 4

VersionsOf(db) ==
    UNION {{db.module[k].versionen[j] : j \in DOMAIN db.module[k].versionen} :
             k \in DOMAIN db.module}

KeysOf(db) == {Key(v) : v \in VersionsOf(db)}

HashOf(db, key) == (CHOOSE v \in VersionsOf(db) : Key(v) = key).content_hash

NoRepeat(list) == \A a, b \in DOMAIN list : a # b => list[a] # list[b]

(* C1: every key of old and new is in exactly one class: added iff only in *)
(* new, removed iff only in old, changed iff in both with different        *)
(* content_hash (a missing hash is null, null differs from every non-null  *)
(* hash), otherwise in none of the reported lists; no list repeats a key.  *)
C1_Classification ==
    pc = "compared" =>
        LET c == changes[1]
            added == Range(c.neue_module)
            removed == Range(c.geloeschte_module)
            changed == {c.geaenderte_module[k].modul : k \in DOMAIN c.geaenderte_module}
        IN  /\ \A key \in KeysOf(old_db) \cup KeysOf(new_db) :
                LET name == key[1] \o <<"-", "V">> \o key[2]
                    inOld == key \in KeysOf(old_db)
                    inNew == key \in KeysOf(new_db)
                IN  /\ name \in added <=> inNew /\ ~inOld
                    /\ name \in removed <=> inOld /\ ~inNew
                    /\ name \in changed <=>
                         inOld /\ inNew /\ HashOf(old_db, key) # HashOf(new_db, key)
            /\ added \cap removed = {} /\ added \cap changed = {} /\ removed \cap changed = {}
            /\ added \cup removed \cup changed
                 \subseteq {key[1] \o <<"-", "V">> \o key[2] :
                               key \in KeysOf(old_db) \cup KeysOf(new_db)}
            /\ NoRepeat(c.neue_module) /\ NoRepeat(c.geloeschte_module)
            /\ NoRepeat([k \in DOMAIN c.geaenderte_module |-> c.geaenderte_module[k].modul])

C1_Witness ==
    /\ pc = "compared"
    /\ Len(changes[1].neue_module) = 1
    /\ Len(changes[1].geloeschte_module) = 1
    /\ Len(changes[1].geaenderte_module) = 1
    /\ changes[1].geaenderte_module[1].alt_datum = None
    /\ changes[1].geaenderte_module[1].neu_datum # None

----------------------------------------------------------------------------
(* The resumable crawl *)

LoopEnded == pc = "loop" /\ i > Len(modules)

(* what a run without interruption writes when the retrievals of the        *)
(* positions in ok succeed and the others fail                              *)
UninterruptedOutput(ok) ==
    LET mods == [k \in DOMAIN all_modules |->
                    IF k \in ok
                    THEN Update(all_modules[k], DetailsV2(site[all_modules[k].detail_url[1]]))
                    ELSE all_modules[k]]
    IN  save_final_json_v2(mods, create_beruf_mapping(BerufeOf(mods)))

DistinctItems == NoRepeat([k \in DOMAIN all_modules |-> ModuleId(all_modules[k])])

Succeeded == {k \in DOMAIN modules : ModuleId(modules[k]) \in Range(progress.completed)}

(* a run that was never interrupted writes that output *)
UninterruptedRunOutput ==
    (variant = "v2" /\ pc = "done" /\ runs = 1 /\ DistinctItems) =>
        output[1] = UninterruptedOutput(Succeeded)

(* C5: the output of a resumed run equals the output of an uninterrupted   *)
(* run with the same retrieval results (module list, profession list,      *)
(* profession ids of every version).                                       *)
C5_ResumeSameOutput ==
    (variant = "v2" /\ pc = "done" /\ runs > 1 /\ DistinctItems) =>
        output[1] = UninterruptedOutput(Succeeded)

PersistedCompleted == IF loaded = None THEN {} ELSE Range(loaded[1].completed)

(* C6 as stated: a run resumed after an interruption that came after K     *)
(* finished items processes exactly N - K items.                           *)
C6_ExactlyNMinusK ==
    (variant = "v2" /\ runs = 2 /\ LoopEnded) =>
        Cardinality(attempted) = Len(modules) - interrupted_after

(* C6 amended: a resumed run processes exactly the items whose key is not  *)
(* in the completed list of the checkpoint it loaded.                      *)
C6_ResumeProcessesUnpersisted ==
    (variant = "v2" /\ runs >= 2 /\ LoopEnded) =>
        Cardinality(attempted) =
            Cardinality({k \in DOMAIN modules : ModuleId(modules[k]) \notin PersistedCompleted})

C6_Witness ==
    /\ variant = "v2" /\ runs = 2 /\ LoopEnded
    /\ loaded # None
    /\ Len(loaded[1].completed) = 2
    /\ interrupted_after = 3
    /\ Cardinality(attempted) = 1

Unsaved ==
    (IF variant = "v2" THEN Len(progress.completed) ELSE counters.completed)
    - (IF file = None THEN 0 ELSE Len(file[1].completed))

(* C8: in each loop that uses BATCH_SIZE at most BATCH_SIZE successfully   *)
(* processed items are missing from the persisted checkpoint, and none     *)
(* once the loop has ended and the checkpoint was written once more.       *)
C8_AtMostOneBatchUnsaved ==
    /\ pc \in {"loop", "detail"} => Unsaved <= BATCH_SIZE
    /\ pc = "snapshot" => Unsaved = 0

Accounted(n) ==
    IF variant = "v2"
    THEN \A k \in 1..n :
            ModuleId(modules[k]) \in Range(progress.completed) \cup Range(progress.failed)
    ELSE counters.completed + counters.failed = n

PermFail == pc = "detail" /\ call.status = "raised"

(* C9: an item whose retrieval fails for good is recorded as failed and    *)
(* the run does not abort: the loop goes on with the next item, every      *)
(* item is attempted, the run reaches its end with every item completed    *)
(* or failed, and the snapshot is written.                                 *)
C9_FailureDoesNotAbort ==
    /\ [](pc \in {"loop", "detail"} => attempted = 1..(IF pc = "detail" THEN i ELSE i - 1))
    /\ [](pc \in {"loop", "detail"} => Accounted(i - 1))
    /\ [](attempted # {} => pc # "aborted")
    /\ PermFail ~> (pc = "done")
    /\ [](pc = "done" => attempted = DOMAIN modules /\ Accounted(Len(modules)) /\ output # None)

C9_Witness ==
    /\ pc = "done" /\ variant = "v2"
    /\ Len(progress.failed) = 1 /\ Len(progress.completed) = 2
    /\ progress.failed[1] = ModuleId(all_modules[1])
    /\ output # None

(* C10: at most max_retries attempts; the document of the first successful *)
(* attempt is returned and no attempt follows; when all attempts fail the  *)
(* last error is raised with no wait after the final attempt.              *)
C10_BoundedRetry ==
    /\ [](/\ call.tries <= call.max_retries
          /\ call.status = "returned" =>
                /\ call.html = Some(Content(call.url))
                /\ Len(call.errors) = call.tries - 1
                /\ Len(call.sleeps) = call.tries - 1
          /\ call.status = "raised" =>
                /\ call.tries = call.max_retries
                /\ Len(call.errors) = call.max_retries
                /\ call.raised = Some(call.errors[Len(call.errors)])
                /\ Len(call.sleeps) = call.max_retries - 1)
    /\ [][call.status \in {"returned", "raised"} => call' = call]_vars

C10_Witness ==
    /\ pc = "retry" /\ call.status = "raised" /\ call.max_retries = MAX_RETRIES
    /\ call.errors[1] # call.errors[3]
    /\ call.raised = Some(call.errors[3])

----------------------------------------------------------------------------
(* Backoff *)

BackoffExponential ==
    \A k \in DOMAIN call.sleeps : call.sleeps[k] = RETRY_DELAY * Pow2(k - 1)

(* C11: in every fetcher the wait after failed attempt a (from 0) is       *)
(* RETRY_DELAY * 2^a.                                                      *)
C11_ExponentialBackoff == pc = "retry" => BackoffExponential

(* the fetchers of module_scraper_v2.py and module_scraper_v3.py do that *)
BackoffExponentialV2V3 == (pc = "retry" /\ variant \in {"v2", "v3"}) => BackoffExponential

----------------------------------------------------------------------------
(* module_scraper_parallel.py: main with a ThreadPoolExecutor.  Each task  *)
(* is scrape_module_detail on one entry of modules, which it changes in    *)
(* place; the main thread takes the results in the order of completion.    *)

ParStart ==
    /\ variant = "parallel" /\ pc = "start"
    /\ modules' = Deduplicate(all_modules)
    /\ all_berufe' = <<>>
    /\ pc' = "submit"
    /\ UNCHANGED <<variant, site, all_modules, masters, berufe_liste, output, diffVars,
                   parVars, envVars, crawlVars, storeVars, poolVars>>

(* lines 230-233: one task per entry; the pool starts them as threads get free *)
ParSubmit ==
    /\ variant = "parallel" /\ pc = "submit"
    /\ futures' = [k \in DOMAIN modules |-> "pending"]
    /\ pc' = "pool"
    /\ UNCHANGED <<variant, site, aggVars, diffVars, down, envVars, crawlVars, storeVars, poolVars>>

Running == {k \in DOMAIN futures : futures[k] = "running"}

WorkerStart(k) ==
    /\ pc = "pool" /\ futures[k] = "pending"
    /\ Cardinality(Running) < NUM_WORKERS
    /\ futures' = [futures EXCEPT ![k] = "running"]
    /\ UNCHANGED <<variant, site, pc, aggVars, diffVars, down, envVars, crawlVars, storeVars, poolVars>>

(* lines 95-139 *)
WorkerOk(k) ==
    /\ pc = "pool" /\ futures[k] = "running"
    /\ modules[k].detail_url[1] \notin down
    /\ modules' = [modules EXCEPT ![k] = Update(@, DetailsV3(site[@.detail_url[1]]))]
    /\ counters' = [counters EXCEPT !.completed = @ + 1]
    /\ futures' = [futures EXCEPT ![k] = "ok"]
    /\ UNCHANGED <<variant, site, pc, all_modules, all_berufe, masters, berufe_liste,
                   output, diffVars, down, envVars, progress, file, completed_ids, failed_ids,
                   batch_counter, i, call, runs, loaded, attempted, interrupted_after, storeVars, poolVars>>

(* lines 141-145 *)
WorkerFail(k) ==
    /\ pc = "pool" /\ futures[k] = "running"
    /\ modules[k].detail_url[1] \in down
    /\ counters' = [counters EXCEPT !.failed = @ + 1]
    /\ futures' = [futures EXCEPT ![k] = "failed"]
    /\ UNCHANGED <<variant, site, pc, aggVars, diffVars, down, envVars, progress, file,
                   completed_ids, failed_ids, batch_counter, i, call, runs, loaded,
                   attempted, interrupted_after, storeVars, poolVars>>

(* lines 235-238: as_completed yields a finished task *)
Collect(k) ==
    /\ pc = "pool" /\ futures[k] \in {"ok", "failed"}
    /\ all_berufe' =
        IF futures[k] = "ok" /\ modules[k].berufe # None
        THEN all_berufe \o modules[k].berufe[1]
        ELSE all_berufe
    /\ futures' = [futures EXCEPT ![k] = "collected"]
    /\ UNCHANGED <<variant, site, pc, all_modules, modules, masters, berufe_liste, output,
                   diffVars, down, envVars, crawlVars, storeVars, poolVars>>

AllCollected == \A k \in DOMAIN futures : futures[k] = "collected"

(* line 242, after the for loop and the exit of the with block *)
ParGroup ==
    /\ variant = "parallel" /\ pc = "pool"
    /\ AllCollected
    /\ masters' = group_by_master(modules)
    /\ pc' = "snapshot"
    /\ UNCHANGED <<variant, site, all_modules, modules, all_berufe, berufe_liste, output,
                   diffVars, parVars, envVars, crawlVars, storeVars, poolVars>>

(* lines 247-248 *)
ParSnapshot ==
    /\ variant = "parallel" /\ pc = "snapshot"
    /\ berufe_liste' = create_beruf_mapping(all_berufe)
    /\ output' = Some(save_final_json_v3(masters, berufe_liste'))
    /\ pc' = "done"
    /\ UNCHANGED <<variant, site, all_modules, modules, all_berufe, masters, diffVars,
                   parVars, envVars, crawlVars, storeVars, poolVars>>

InitPar ==
    /\ StoreIdle
    /\ PoolIdle
    /\ variant = "parallel"
    /\ site \in Sites
    /\ pc = "start"
    /\ all_modules \in SeqsUpTo(CrawlEntries, MaxList)
    /\ modules = <<>> /\ all_berufe = <<>> /\ masters = <<>> /\ berufe_liste = <<>>
    /\ output = None
    /\ old_db = None /\ new_db = None /\ changes = None /\ report = None
    /\ CrawlIdle
    /\ futures = <<>>
    /\ down \in SUBSET {e.detail_url[1] : e \in CrawlEntries}
    /\ EnvIdle

NextPar ==
    \/ ParStart \/ ParSubmit \/ ParGroup \/ ParSnapshot
    \/ \E k \in DOMAIN futures : WorkerStart(k) \/ WorkerOk(k) \/ WorkerFail(k) \/ Collect(k)

SpecPar == InitPar /\ [][NextPar]_vars

(* what the crawl writes when the entries are retrieved one after the other, in list order *)
RECURSIVE InListOrder(_)
InListOrder(entries) ==
    IF entries = <<>> THEN <<>>
    ELSE LET k == Len(entries)
             e == entries[k]
         IN  Append(InListOrder(SubSeq(entries, 1, k - 1)),
                    IF e.detail_url[1] \in down THEN e
                    ELSE Update(e, DetailsV3(site[e.detail_url[1]])))

SequentialOutput ==
    LET mods == InListOrder(Deduplicate(all_modules))
    IN  save_final_json_v3(group_by_master(mods), create_beruf_mapping(BerufeOf(mods)))

(* C12: the output of the parallel crawl is the one of the crawl in list   *)
(* order, whatever the order in which the tasks complete, and the          *)
(* aggregation starts only when every task has finished and was taken.     *)
C12_CompletionOrderIndependent ==
    /\ [](pc = "done" => output = Some(SequentialOutput))
    /\ [](pc \in {"snapshot", "done"} => AllCollected)
    /\ [][masters' # masters => AllCollected]_vars

(* the tasks were taken in an order that is not the list order *)
C12_Witness ==
    /\ pc = "done" /\ output = Some(SequentialOutput)
    /\ Len(modules) >= 2
    /\ FirstSeen(all_berufe, <<>>) # FirstSeen(BerufeOf(modules), <<>>)

----------------------------------------------------------------------------
(* Deduplication before retrieval *)

WorkKeys == [k \in DOMAIN modules |-> ModuleId(modules[k])]

(* C13: in every crawl variant the work list holds each nummer-version     *)
(* key at most once, so no key's detail page is retrieved for two list     *)
(* entries within one run.                                                 *)
C13_DedupBeforeRetrieval ==
    /\ NoRepeat(WorkKeys)
    /\ \A a, b \in attempted : a # b => WorkKeys[a] # WorkKeys[b]

(* module_scraper_v3.py and module_scraper_parallel.py do deduplicate *)
DedupBeforeRetrievalV3 == variant # "v2" => C13_DedupBeforeRetrieval

----------------------------------------------------------------------------
(* Writes that fail.  save_progress and save_final_json open the file with *)
(* mode 'w', which truncates it, and then json.dump into it: a write that  *)
(* raises (disk full, no permission) leaves the old content or a torn file,*)
(* and so does a process killed between the truncation and the last byte.  *)

AfterFailedWrite(content) == {content, Some(Torn)}

(* line 186 raises: nothing catches it *)
V2ListSaveFails ==
    /\ variant = "v2" /\ pc = "list" /\ call.status = "returned"
    /\ modules' = all_modules
    /\ file' \in AfterFailedWrite(file)
    /\ disk_error' = Some("checkpoint")
    /\ pc' = "aborted"
    /\ call' = NoCall
    /\ UNCHANGED <<variant, site, all_modules, all_berufe, masters, berufe_liste, output,
                   diffVars, parVars, progress, counters, completed_ids, failed_ids,
                   batch_counter, i, runs, loaded, attempted, interrupted_after, storeVars, poolVars>>

BatchSaveDue ==
    /\ variant = "v2" /\ pc = "detail" /\ call.status = "returned" /\ call.html # None
    /\ ~(ModuleId(modules[i]) \in failed_ids /\ ModuleId(modules[i]) \notin Range(progress.failed))
    /\ batch_counter + 1 >= BATCH_SIZE

(* line 228 raises inside the try block: the except clause of line 232 takes it *)
V2BatchSaveFails ==
    /\ BatchSaveDue
    /\ LET module_id == ModuleId(modules[i])
           details == DetailsV2(call.html[1])
           failed == IF module_id \in failed_ids
                     THEN RemoveFirst(progress.failed, module_id)
                     ELSE progress.failed
       IN  /\ modules' = [modules EXCEPT ![i] = Update(@, details)]
           /\ all_berufe' = all_berufe \o details.berufe[1]
           /\ progress' = [completed |-> Append(progress.completed, module_id),
                           failed |-> Append(failed, module_id)]
    /\ batch_counter' = batch_counter + 1
    /\ file' \in AfterFailedWrite(file)
    /\ disk_error' = Some("checkpoint")
    /\ i' = i + 1
    /\ pc' = "loop"
    /\ call' = NoCall
    /\ UNCHANGED <<variant, site, all_modules, masters, berufe_liste, output, diffVars,
                   parVars, counters, completed_ids, failed_ids, runs, loaded, attempted,
                   interrupted_after, storeVars, poolVars>>

(* line 239 raises *)
V2FinalSaveFails ==
    /\ variant = "v2" /\ pc = "loop" /\ i > Len(modules)
    /\ file' \in AfterFailedWrite(file)
    /\ disk_error' = Some("checkpoint")
    /\ pc' = "aborted"
    /\ UNCHANGED <<variant, site, aggVars, diffVars, parVars, progress, counters,
                   completed_ids, failed_ids, batch_counter, i, call, runs, loaded,
                   attempted, interrupted_after, storeVars, poolVars>>

(* the open or the json.dump of save_final_json raises (v2 line 165, v3 line 219) *)
SnapshotFails ==
    /\ variant \in {"v2", "v3"} /\ pc = "snapshot"
    /\ berufe_liste' = create_beruf_mapping(all_berufe)
    /\ modules' = IF variant = "v2"
                  THEN save_final_json_v2(modules, berufe_liste').module
                  ELSE modules
    /\ output' \in AfterFailedWrite(output)
    /\ disk_error' = Some("snapshot")
    /\ pc' = "aborted"
    /\ UNCHANGED <<variant, site, all_modules, all_berufe, masters, diffVars, parVars,
                   crawlVars, storeVars, poolVars>>

SaveRunning ==
    \/ variant = "v2" /\ pc = "list" /\ call.status = "returned"
    \/ BatchSaveDue
    \/ variant = "v2" /\ pc = "loop" /\ i > Len(modules)

(* the process is killed inside save_progress, after the truncation *)
KillDuringSave ==
    /\ SaveRunning
    /\ runs < MaxRuns
    /\ runs' = runs + 1
    /\ interrupted_after' = Finished
    /\ file' = Some(Torn)
    /\ pc' = "start"
    /\ modules' = <<>> /\ all_berufe' = <<>> /\ masters' = <<>> /\ berufe_liste' = <<>>
    /\ progress' = EmptyProgress
    /\ counters' = NoCounters
    /\ completed_ids' = {} /\ failed_ids' = {}
    /\ batch_counter' = 0
    /\ i' = 1
    /\ call' = NoCall
    /\ loaded' = None
    /\ attempted' = {}
    /\ disk_error' = None
    /\ UNCHANGED <<variant, site, all_modules, output, diffVars, parVars, storeVars, poolVars>>

(* line 30: json.load raises on a torn file; nothing catches it *)
V2LoadFails ==
    /\ variant = "v2" /\ pc = "start"
    /\ file = Some(Torn)
    /\ pc' = "aborted"
    /\ UNCHANGED <<variant, site, aggVars, diffVars, parVars, envVars, crawlVars, storeVars, poolVars>>

NextDisk ==
    \/ Next
    \/ V2ListSaveFails \/ V2BatchSaveFails \/ V2FinalSaveFails \/ SnapshotFails
    \/ KillDuringSave \/ V2LoadFails

SpecDisk == Init /\ [][NextDisk]_vars

(* C14: when a write of the checkpoint or of the snapshot fails the run    *)
(* stops: it takes no further item and the failure is not recorded as the  *)
(* failure of an item.                                                     *)
C14_WriteFailureStopsRun == disk_error # None => pc = "aborted"

(* the writes outside the try block of the item loop do stop the run *)
WriteFailureOutsideLoopStopsRun ==
    [][(disk_error' # None /\ disk_error = None /\ pc # "detail") => pc' = "aborted"]_vars

(* C15: save is an atomic overwrite: whenever the process is killed, the   *)
(* persisted checkpoint is the one saved before or a complete new one, and *)
(* it can be loaded.                                                       *)
C15_SaveAtomic ==
    [][runs' = runs + 1 =>
        /\ file' # Some(Torn)
        /\ file' = file \/ file' # None]_vars

(* a kill outside save_progress leaves the checkpoint as it was *)
KillOutsideSaveKeepsCheckpoint ==
    [][(runs' = runs + 1 /\ ~SaveRunning) => file' = file]_vars

(* C16: when a run has written its snapshot and reached its end no         *)
(* persisted checkpoint exists, and the checkpoint is deleted by nothing   *)
(* but the cleanup that follows the written snapshot: a run that is        *)
(* interrupted or whose snapshot write fails leaves it in place.           *)
C16_CheckpointDeletedOnCompletion ==
    /\ [](pc = "done" => file = None /\ output # None /\ output # Some(Torn))
    /\ [][(file # None /\ file' = None) => (pc = "cleanup" /\ pc' = "done")]_vars
    /\ [](pc = "aborted" /\ disk_error = Some("snapshot") /\ variant = "v2" => file # None)

(* a resumed run found the checkpoint of the interrupted one and deleted it at its end *)
C16_Witness ==
    /\ variant = "v2" /\ pc = "done" /\ runs = 2
    /\ loaded # None /\ loaded[1].completed # <<>>
    /\ file = None /\ output # None

----------------------------------------------------------------------------
(* Repeated runs: module_scraper_v3.py is run, create_update_report.py is  *)
(* run on the snapshot, and the crawl is run again, while the clock        *)
(* advances and the source may change between two runs.  The report reads  *)
(* the file it-module-master.json that save_final_json writes.             *)

Tick ==
    /\ now < MaxClock
    /\ now' = now + 1
    /\ UNCHANGED <<variant, site, pc, aggVars, diffVars, parVars, envVars, backups, earlier,
                   crawlVars, poolVars>>

(* the positions of the work list whose detail page was retrieved *)
Retrieved(mods) == {k \in DOMAIN mods : mods[k].handlungsziele # None}

(* the script has ended and is started again: a new process, the same files *)
Rerun ==
    /\ variant = "v3" /\ pc = "done"
    /\ runs < MaxRuns
    /\ runs' = runs + 1
    /\ site' \in Sites
    /\ earlier' = Append(earlier, [site |-> site, modules |-> modules, snapshot |-> output[1]])
    /\ pc' = "start"
    /\ modules' = <<>> /\ all_berufe' = <<>> /\ masters' = <<>> /\ berufe_liste' = <<>>
    /\ counters' = NoCounters
    /\ i' = 1
    /\ call' = NoCall
    /\ attempted' = {}
    /\ UNCHANGED <<variant, all_modules, output, diffVars, parVars, envVars, now, backups,
                   progress, file, completed_ids, failed_ids, batch_counter, loaded,
                   interrupted_after, poolVars>>

(* sorted(BACKUP_DIR.glob(...), reverse=True)[0]: the greatest date in a file name *)
find_latest_backup ==
    IF DOMAIN backups = {} THEN None
    ELSE Some(CHOOSE d \in DOMAIN backups : \A c \in DOMAIN backups : c <= d)

(* create_update_report.py main, lines 197-268 *)
Report ==
    /\ variant = "v3" /\ pc = "done"
    /\ output # None
    /\ LET db == output[1]
           new_date == Date(db.meta.erstellt)
           backup_file == find_latest_backup
       IN  /\ new_db' = db
           /\ IF backup_file = None
              THEN /\ backups' = (new_date :> db)
                   /\ UNCHANGED <<old_db, changes, report>>
              ELSE /\ old_db' = backups[backup_file[1]]
                   /\ changes' = Some(compare_databases(old_db', db))
                   /\ report' = Some(create_report(changes'[1],
                                                   Date(old_db'.meta.erstellt), new_date))
                   /\ backups' =
                        IF new_date \in DOMAIN backups THEN backups
                        ELSE (new_date :> db) @@ backups
    /\ UNCHANGED <<variant, site, pc, aggVars, parVars, envVars, now, earlier, crawlVars, poolVars>>

InitStore ==
    /\ StoreIdle
    /\ PoolIdle
    /\ variant = "v3"
    /\ site \in Sites
    /\ pc = "start"
    /\ all_modules \in SeqsUpTo(CrawlEntries, MaxItems)
    /\ modules = <<>> /\ all_berufe = <<>> /\ masters = <<>> /\ berufe_liste = <<>>
    /\ output = None
    /\ old_db = None /\ new_db = None /\ changes = None /\ report = None
    /\ CrawlIdle
    /\ ParIdle
    /\ EnvIdle

NextStore ==
    \/ AttemptOk \/ AttemptFail \/ ListFail \/ Cleanup
    \/ V3Start \/ V3ListDone \/ V3BeginDetail \/ V3DetailOk \/ V3DetailFail
    \/ V3Group \/ V3Snapshot
    \/ Tick \/ Rerun \/ Report

SpecStore == InitStore /\ [][NextStore]_vars

(* C17: a snapshot that was written is never changed afterwards, neither   *)
(* the snapshot file of a crawl run nor a backup the report generator made: *)
(* every later run leaves the written content as it is and stores its own  *)
(* snapshot elsewhere.                                                     *)
C17_SnapshotImmutable ==
    [][/\ output # None => output' = output
       /\ \A d \in DOMAIN backups : d \in DOMAIN backups' /\ backups'[d] = backups[d]]_vars

(* the part that the report generator keeps: a backup is never rewritten *)
BackupImmutable ==
    [][\A d \in DOMAIN backups : d \in DOMAIN backups' /\ backups'[d] = backups[d]]_vars

(* the latest earlier run met the same source and its retrievals had the   *)
(* same results as those of the run that has just ended                    *)
SameRetrievals ==
    /\ earlier # <<>>
    /\ earlier[Len(earlier)].site = site
    /\ Retrieved(earlier[Len(earlier)].modules) = Retrieved(modules)

(* a snapshot with its time stamps set to those of another *)
WithErstellt(db, other) == [db EXCEPT !.meta.erstellt = other.meta.erstellt]

WithCheckTimes(db, other) ==
    [db EXCEPT !.module =
        [m \in DOMAIN @ |->
            [@[m] EXCEPT !.versionen =
                [v \in DOMAIN @ |->
                    [@[v] EXCEPT !.letzter_check =
                        other.module[m].versionen[v].letzter_check]]]]]

(* C18: when the pipeline has run twice over an unchanged source, with the *)
(* same retrieval result for every item, the two snapshots are equal in    *)
(* every field but meta.erstellt.                                          *)
C18_IdempotentButErstellt ==
    (pc = "done" /\ SameRetrievals) =>
        WithErstellt(earlier[Len(earlier)].snapshot, output[1]) = output[1]

(* the two snapshots are equal in every field but the time stamps *)
IdempotentButTimeStamps ==
    (pc = "done" /\ SameRetrievals) =>
        /\ Len(earlier[Len(earlier)].snapshot.module) = Len(output[1].module)
        /\ \A m \in DOMAIN output[1].module :
              Len(earlier[Len(earlier)].snapshot.module[m].versionen)
                 = Len(output[1].module[m].versionen)
        /\ WithCheckTimes(WithErstellt(earlier[Len(earlier)].snapshot, output[1]), output[1])
              = output[1]

IdempotentWitness ==
    /\ pc = "done" /\ SameRetrievals
    /\ Retrieved(modules) # {}
    /\ earlier[Len(earlier)].snapshot.meta.erstellt # output[1].meta.erstellt

----------------------------------------------------------------------------
(* compare_databases on the files the report may find: it reads whatever   *)
(* CURRENT_DB and the backup directory hold.  The ids of a snapshot are    *)
(* positions in its own list of professions, and a content_hash is what    *)
(* the run that wrote the file has stored.                                 *)

(* the same names, the ids counted from the other end, in berufe and in    *)
(* the berufe_ids of every version                                         *)
Renumbered(db) ==
    LET n == Len(db.berufe)
    IN  [db EXCEPT
            !.berufe = [k \in DOMAIN @ |-> [@[k] EXCEPT !.id = n + 1 - @]],
            !.module =
                [m \in DOMAIN @ |->
                    [@[m] EXCEPT !.versionen =
                        [v \in DOMAIN @ |->
                            [@[v] EXCEPT !.berufe_ids =
                                IF @ = None THEN None
                                ELSE Some([j \in DOMAIN @[1] |-> n + 1 - @[1][j]])]]]]]

(* the same snapshot with another content_hash in one version *)
Hashes == {None} \cup {Some(Sha256Prefix[d]) : d \in DOMAIN Sha256Prefix}

WithHash(db, m, v, h) == [db EXCEPT !.module[m].versionen[v].content_hash = h]

HashVariants(db) ==
    UNION {{WithHash(db, m, v, h) : v \in DOMAIN db.module[m].versionen, h \in Hashes} :
              m \in DOMAIN db.module}

InitFiles ==
    /\ StoreIdle
    /\ PoolIdle
    /\ variant = "report"
    /\ site = Site1
    /\ pc = "load"
    /\ old_db \in Snapshots
    /\ new_db \in Snapshots \cup {Renumbered(db) : db \in Snapshots} \cup HashVariants(old_db)
    /\ changes = None /\ report = None
    /\ all_modules = <<>> /\ modules = <<>> /\ all_berufe = <<>>
    /\ masters = <<>> /\ berufe_liste = <<>> /\ output = None
    /\ CrawlIdle
    /\ ParIdle
    /\ EnvIdle

SpecFiles == InitFiles /\ [][NextDiff]_vars

BerufNamen(db) == {db.berufe[k].name : k \in DOMAIN db.berufe}

IdOf(db, name) == {db.berufe[k].id : k \in {j \in DOMAIN db.berufe : db.berufe[j].name = name}}

(* C19: neue_berufe lists, once each, exactly the profession names of the  *)
(* new snapshot that the old one does not have; a name that only the old   *)
(* snapshot has is not in it; the ids have no part in it: with the same    *)
(* set of names in both snapshots the list is empty whatever the ids are.  *)
C19_ProfessionDiffByName ==
    pc = "compared" =>
        LET neue == changes[1].neue_berufe
        IN  /\ Range(neue) = BerufNamen(new_db) \ BerufNamen(old_db)
            /\ NoRepeat(neue)
            /\ Range(neue) \cap (BerufNamen(old_db) \ BerufNamen(new_db)) = {}
            /\ BerufNamen(new_db) = BerufNamen(old_db) => neue = <<>>

(* the same names with other ids in the new snapshot, and nothing reported *)
C19_Witness ==
    /\ pc = "compared"
    /\ BerufNamen(new_db) = BerufNamen(old_db)
    /\ \E name \in BerufNamen(new_db) : IdOf(new_db, name) # IdOf(old_db, name)
    /\ changes[1].neue_berufe = <<>>

(* a name that disappeared and a name that appeared: only the latter is reported *)
ProfessionRemovedWitness ==
    /\ pc = "compared"
    /\ BerufNamen(old_db) \ BerufNamen(new_db) # {}
    /\ BerufNamen(new_db) \ BerufNamen(old_db) # {}
    /\ Range(changes[1].neue_berufe) = BerufNamen(new_db) \ BerufNamen(old_db)

(* new is old with another content_hash in version v of master m, and      *)
(* nothing else is different                                                *)
DiffersOnlyInHash(old, new, m, v) ==
    /\ m \in DOMAIN old.module /\ m \in DOMAIN new.module
    /\ v \in DOMAIN old.module[m].versionen /\ v \in DOMAIN new.module[m].versionen
    /\ old.module[m].versionen[v].content_hash # new.module[m].versionen[v].content_hash
    /\ new = WithHash(old, m, v, new.module[m].versionen[v].content_hash)

(* C20: when the two snapshots differ in the content_hash of one version   *)
(* and in nothing else, the comparison reports one changed entry, which    *)
(* has the key of that version, no added entry and no removed entry.       *)
C20_OneHashOneChange ==
    pc = "compared" =>
        \A m \in DOMAIN old_db.module :
            \A v \in DOMAIN old_db.module[m].versionen :
                DiffersOnlyInHash(old_db, new_db, m, v) =>
                    /\ Len(changes[1].geaenderte_module) = 1
                    /\ changes[1].geaenderte_module[1].modul =
                          DiffKey(new_db.module[m], new_db.module[m].versionen[v])
                    /\ changes[1].neue_module = <<>>
                    /\ changes[1].geloeschte_module = <<>>

(* the hash of the older version of a master with two versions was changed *)
C20_Witness ==
    /\ pc = "compared"
    /\ \E m \in DOMAIN old_db.module :
          /\ Len(old_db.module[m].versionen) = 2
          /\ DiffersOnlyInHash(old_db, new_db, m, 1)
          /\ old_db.module[m].versionen[1].content_hash # None
          /\ new_db.module[m].versionen[1].content_hash # None
    /\ Len(changes[1].geaenderte_module) = 1

----------------------------------------------------------------------------
(* The worker threads of the pool, one step at a time: a thread takes the  *)
(* next task of the queue, runs scrape_module_detail (download_module_html *)
(* in phase1_download.py has the same steps) and is free again.  The       *)
(* statement progress_counter[...] += 1 is a load and a store.             *)

IdleThread == [task |-> 0, step |-> "idle", result |-> "", tmp |-> 0, last_end |-> None]

Pending == {k \in DOMAIN futures : futures[k] = "pending"}

(* the thread takes the oldest task of the work queue and calls the function *)
Take(w) ==
    /\ pc = "pool" /\ threads[w].step = "idle"
    /\ Pending # {}
    /\ LET k == Min(Pending)
       IN  /\ futures' = [futures EXCEPT ![k] = "running"]
           /\ threads' = [threads EXCEPT ![w].task = k, ![w].step = "fetch"]
    /\ UNCHANGED <<variant, site, pc, aggVars, diffVars, down, envVars, storeVars,
                   progress_lock, crawlVars>>

(* lines 96-133: the retrieval returns and the fields of the module are set *)
FetchOk(w) ==
    /\ threads[w].step = "fetch"
    /\ modules[threads[w].task].detail_url[1] \notin down
    /\ modules' = [modules EXCEPT ![threads[w].task] =
                      Update(@, DetailsV3(site[@.detail_url[1]]))]
    /\ threads' = [threads EXCEPT ![w].step = "acquire", ![w].result = "ok",
                                  ![w].last_end = Some(now)]
    /\ UNCHANGED <<variant, site, pc, all_modules, all_berufe, masters, berufe_liste, output,
                   diffVars, parVars, envVars, storeVars, progress_lock, crawlVars>>

(* lines 96, 141: the retrieval raises after its last attempt *)
FetchFail(w) ==
    /\ threads[w].step = "fetch"
    /\ modules[threads[w].task].detail_url[1] \in down
    /\ threads' = [threads EXCEPT ![w].step = "acquire", ![w].result = "failed",
                                  ![w].last_end = Some(now)]
    /\ UNCHANGED <<variant, site, pc, aggVars, diffVars, parVars, envVars, storeVars,
                   progress_lock, crawlVars>>

LockIgnored == TRUE
LockFree == progress_lock = 0

(* with progress_lock: *)
Acquire(w) ==
    /\ threads[w].step = "acquire"
    /\ LockFree
    /\ progress_lock' = w
    /\ threads' = [threads EXCEPT ![w].step = "load"]
    /\ UNCHANGED <<variant, site, pc, aggVars, diffVars, parVars, envVars, storeVars,
                   crawlVars>>

CounterKey(t) == IF t.result = "ok" THEN "completed" ELSE "failed"

Load(w) ==
    /\ threads[w].step = "load"
    /\ threads' = [threads EXCEPT ![w].tmp = counters[CounterKey(threads[w])],
                                  ![w].step = "store"]
    /\ UNCHANGED <<variant, site, pc, aggVars, diffVars, parVars, envVars, storeVars,
                   progress_lock, crawlVars>>

Store(w) ==
    /\ threads[w].step = "store"
    /\ counters' = [counters EXCEPT ![CounterKey(threads[w])] = threads[w].tmp + 1]
    /\ threads' = [threads EXCEPT ![w].step = "release"]
    /\ UNCHANGED <<variant, site, pc, aggVars, diffVars, parVars, envVars, storeVars,
                   progress_lock, progress, file, completed_ids, failed_ids, batch_counter,
                   i, call, runs, loaded, attempted, interrupted_after>>

(* the with block ends and the function returns: the future is done *)
Release(w) ==
    /\ threads[w].step = "release"
    /\ progress_lock' = 0
    /\ futures' = [futures EXCEPT ![threads[w].task] = threads[w].result]
    /\ threads' = [threads EXCEPT ![w].task = 0, ![w].step = "idle", ![w].result = "",
                                  ![w].tmp = 0]
    /\ UNCHANGED <<variant, site, pc, aggVars, diffVars, down, envVars, storeVars,
                   crawlVars>>

InitPool ==
    /\ now = 0 /\ backups = <<>> /\ earlier = <<>>
    /\ threads = [w \in 1..NUM_WORKERS |-> IdleThread]
    /\ progress_lock = 0
    /\ variant = "parallel"
    /\ site = Site1
    /\ pc = "start"
    /\ all_modules \in SeqsUpTo(CrawlEntries, MaxRaw)
    /\ modules = <<>> /\ all_berufe = <<>> /\ masters = <<>> /\ berufe_liste = <<>>
    /\ output = None
    /\ old_db = None /\ new_db = None /\ changes = None /\ report = None
    /\ CrawlIdle
    /\ futures = <<>>
    /\ down \in SUBSET {e.detail_url[1] : e \in CrawlEntries}
    /\ EnvIdle

NextPool ==
    \/ ParStart \/ ParSubmit \/ ParGroup \/ ParSnapshot \/ Tick
    \/ \E k \in DOMAIN futures : Collect(k)
    \/ \E w \in DOMAIN threads :
          Take(w) \/ FetchOk(w) \/ FetchFail(w) \/ Acquire(w) \/ Load(w) \/ Store(w)
             \/ Release(w)

SpecPool == InitPool /\ [][NextPool]_vars

(* C21: in the parallel crawl a worker that has ended a detail retrieval   *)
(* starts its next one only when the delay between requests has passed.    *)
C21_DelayPerWorker ==
    [][\A w \in DOMAIN threads :
          (threads[w].step = "idle" /\ threads'[w].step = "fetch"
              /\ threads[w].last_end # None)
            => now >= threads[w].last_end[1] + REQUEST_DELAY]_vars

(* the tasks whose thread has done its increment *)
Counted ==
    {k \in DOMAIN futures : futures[k] \in {"ok", "failed", "collected"}}
        \cup {threads[w].task : w \in {v \in DOMAIN threads : threads[v].step = "release"}}

(* C22: the shared counter changes only in a step of the thread that holds *)
(* the lock, no increment is lost whatever the interleaving is             *)
(* (completed + failed is the number of tasks that have done their         *)
(* increment), and when the pool has drained completed + failed is the     *)
(* number of work items and failed the number of items whose retrieval     *)
(* raised.                                                                 *)
C22_CounterUnderLock ==
    /\ [][counters' # counters =>
            /\ progress_lock # 0
            /\ threads[progress_lock].step = "store"
            /\ threads'[progress_lock].step = "release"
            /\ \A w \in DOMAIN threads \ {progress_lock} :
                  threads[w].step \notin {"load", "store", "release"}]_vars
    /\ [](counters.completed + counters.failed = Cardinality(Counted))
    /\ [](pc \in {"snapshot", "done"} =>
            /\ counters.completed + counters.failed = Len(modules)
            /\ counters.failed =
                  Cardinality({k \in DOMAIN modules : modules[k].detail_url[1] \in down}))

(* a thread is between its load and its store while another waits for the *)
(* lock, after an earlier increment                                        *)
C22_Witness ==
    /\ pc = "pool"
    /\ counters.completed + counters.failed >= 1
    /\ \E w \in DOMAIN threads : \E v \in DOMAIN threads :
          /\ threads[w].step = "store" /\ progress_lock = w
          /\ threads[v].step = "acquire"
          /\ threads[w].result # threads[v].result

----------------------------------------------------------------------------
(* the summary of the report has a line with that label and that number *)
States(summary, label, n) == \E j \in DOMAIN summary : summary[j] = <<label, n>>

SummaryHasCounts ==
    LET summary == report[1].zusammenfassung
    IN  /\ States(summary, "Neue Module", Len(changes[1].neue_module))
        /\ States(summary, "Geaenderte Module", Len(changes[1].geaenderte_module))
        /\ States(summary, "Geloeschte Module", Len(changes[1].geloeschte_module))
        /\ States(summary, "Neue Berufe", Len(changes[1].neue_berufe))

(* the summary says that there are no changes, and there is nothing to count *)
NothingToCount ==
    /\ changes[1].neue_module = <<>> /\ changes[1].geaenderte_module = <<>>
    /\ changes[1].geloeschte_module = <<>> /\ changes[1].neue_berufe = <<>>
    /\ report[1].zusammenfassung = <<<<"Keine Aenderungen">>>>

(* C23: for every result of the comparison, also when new professions are  *)
(* its only entries, the summary of the report states the numbers of added, *)
(* changed and removed modules and of new professions ("no changes" counts *)
(* as stating four zeros).                                                 *)
C23_SummaryStatesCounts == pc = "reported" => SummaryHasCounts \/ NothingToCount

(* the summary states the four numbers when a module was added, changed or removed *)
SummaryCountsWhenModulesDiffer ==
    (pc = "reported"
        /\ Len(changes[1].neue_module) + Len(changes[1].geaenderte_module)
              + Len(changes[1].geloeschte_module) > 0)
      => SummaryHasCounts

(* new professions are the only entries and the summary does not state them *)
OnlyNewProfessionsUnstated ==
    /\ pc = "reported"
    /\ changes[1].neue_berufe # <<>>
    /\ changes[1].neue_module = <<>> /\ changes[1].geaenderte_module = <<>>
    /\ changes[1].geloeschte_module = <<>>
    /\ ~SummaryHasCounts

----------------------------------------------------------------------------
(* the names of a raw list that the mapping knows, in their order *)
Known(names, liste) ==
    LET IsKey(b) == \E k \in DOMAIN liste : liste[k].name = b
    IN  SelectSeq(names, IsKey)

NameOfId(liste, id) == liste[CHOOSE k \in DOMAIN liste : liste[k].id = id].name

(* the versions of the snapshot being written, each with the record of the *)
(* crawl it is made from                                                    *)
Written ==
    IF variant = "v2"
    THEN {<<output'[1].module[k], modules[k]>> : k \in DOMAIN modules}
    ELSE LET Raw == UNION {Range(masters[m].versionen) : m \in DOMAIN masters}
             New == UNION {Range(output'[1].module[m].versionen) :
                              m \in DOMAIN output'[1].module}
         IN  {p \in New \X Raw :
                 p[1].nummer = p[2].nummer /\ p[1].version = p[2].version}

IdsOfKnownNames(p, liste) ==
    /\ p[2].berufe = None => p[1].berufe_ids = p[2].berufe_ids
    /\ p[2].berufe # None =>
          /\ p[1].berufe_ids # None
          /\ Len(p[1].berufe_ids[1]) = Len(Known(p[2].berufe[1], liste))
          /\ \A j \in DOMAIN p[1].berufe_ids[1] :
                /\ \E k \in DOMAIN liste : liste[k].id = p[1].berufe_ids[1][j]
                /\ NameOfId(liste, p[1].berufe_ids[1][j]) = Known(p[2].berufe[1], liste)[j]

(* C24: when the snapshot is written, a profession name that the mapping   *)
(* does not have is left out and the run goes on to its end; the ids of a  *)
(* version are those of its known names in the order of the raw list; and  *)
(* every id of a version is the id of an entry of the profession list of   *)
(* the snapshot.  A step with runs' = runs is a step of the running        *)
(* process; the other steps at this place kill it from outside.            *)
C24_UnknownNamesDropped ==
    [][(variant \in {"v2", "v3"} /\ pc = "snapshot" /\ runs' = runs) =>
          /\ pc' = "cleanup"
          /\ output' # None /\ output' # Some(Torn)
          /\ \A p \in Written : IdsOfKnownNames(p, output'[1].berufe)]_vars

(* a resumed run has written a version whose page has two profession names *)
(* and whose id list has one id: the other name is not in the mapping      *)
C24_Witness ==
    /\ variant = "v2" /\ pc = "done" /\ output # None /\ output # Some(Torn)
    /\ \E k \in DOMAIN output[1].module : \E e \in Range(all_modules) :
          /\ e.nummer = output[1].module[k].nummer
          /\ e.version = output[1].module[k].version
          /\ output[1].module[k].berufe_ids # None
          /\ Len(output[1].module[k].berufe_ids[1]) = 1
          /\ e.detail_url # None
          /\ Len(site[e.detail_url[1]].berufe) = 2

----------------------------------------------------------------------------
(* the keys that both snapshots have with the same content_hash *)
Unchanged(old, new) ==
    LET old_modules == DictFrom(Flatten(old.module), <<>>)
        new_modules == DictFrom(Flatten(new.module), <<>>)
    IN  {new_modules[k].key : k \in
            {k \in DOMAIN new_modules :
                /\ HasKey(old_modules, new_modules[k].key)
                /\ ~HashDiffers(Lookup(old_modules, new_modules[k].key).version.content_hash,
                                new_modules[k].version.content_hash)}}

(* every number that a change set holds: the statistics of the two         *)
(* snapshots; its other entries are lists of keys, changes and names       *)
Numbers(ch) ==
    {ch.statistik_alt[f] : f \in DOMAIN ch.statistik_alt}
        \cup {ch.statistik_neu[f] : f \in DOMAIN ch.statistik_neu}

(* C25: the change set of a comparison carries the number of unchanged     *)
(* versions, the keys that both snapshots have with equal content_hash:    *)
(* one of the numbers it holds is that number.                             *)
C25_UnchangedCounted ==
    pc \in {"compared", "reported"} =>
        Cardinality(Unchanged(old_db, new_db)) \in Numbers(changes[1])

(* the lists of a change set leave out exactly the unchanged keys *)
UnchangedNotItemized ==
    pc \in {"compared", "reported"} =>
        \A key \in Unchanged(old_db, new_db) :
            /\ \A k \in DOMAIN changes[1].neue_module : changes[1].neue_module[k] # key
            /\ \A k \in DOMAIN changes[1].geloeschte_module :
                  changes[1].geloeschte_module[k] # key
            /\ \A k \in DOMAIN changes[1].geaenderte_module :
                  changes[1].geaenderte_module[k].modul # key

----------------------------------------------------------------------------
(* every record the crawl runs have extracted and every version of a       *)
(* snapshot they have written                                              *)
Extracted ==
    Range(modules)
        \cup UNION {Range(masters[m].versionen) : m \in DOMAIN masters}
        \cup (IF output # None /\ output # Some(Torn) THEN VersionsOf(output[1]) ELSE {})
        \cup UNION {Range(earlier[k].modules) \cup VersionsOf(earlier[k].snapshot) :
                       k \in DOMAIN earlier}
        \cup UNION {VersionsOf(backups[d]) : d \in DOMAIN backups}

----------------------------------------------------------------------------
NoDuplicates(list) == \A j, k \in DOMAIN list : list[j] = list[k] => j = k

(* the checkpoint that a start of the script would load *)
Saved == IF file # None /\ file # Some(Torn) THEN {file[1]} ELSE {}

(* C27: in every checkpoint that the resumable crawl has written, through  *)
(* any failures, interruptions and resumes, no key is in both the          *)
(* completed and the failed list and no key is twice in one of them.       *)
C27_ListsDisjointNoDuplicates ==
    variant = "v2" =>
        \A cp \in Saved :
            /\ Range(cp.completed) \cap Range(cp.failed) = {}
            /\ NoDuplicates(cp.completed)
            /\ NoDuplicates(cp.failed)

(* the same when the work list has no key twice *)
ListsDisjointForUniqueKeys ==
    (variant = "v2" /\ \A j, k \in DOMAIN all_modules :
                          ModuleId(all_modules[j]) = ModuleId(all_modules[k]) => j = k) =>
        \A cp \in Saved :
            /\ Range(cp.completed) \cap Range(cp.failed) = {}
            /\ NoDuplicates(cp.completed)
            /\ NoDuplicates(cp.failed)

----------------------------------------------------------------------------
(* the keys that a change set reports as added, removed or changed *)
Reported(ch) ==
    Range(ch.neue_module) \cup Range(ch.geloeschte_module)
        \cup {ch.geaenderte_module[k].modul : k \in DOMAIN ch.geaenderte_module}

(* the comparison at hand is that of the snapshot of the earlier crawl k   *)
(* with the snapshot of the crawl that has just ended                      *)
ComparesCrawls(k) ==
    /\ pc = "done" /\ changes # None /\ output # None
    /\ new_db = output[1]
    /\ earlier[k].snapshot = old_db

(* the catalog showed the page of this entry with the same publication     *)
(* date at both crawls                                                     *)
SameDateAtBoth(k, e) ==
    /\ PublikationsDatum(site[e.detail_url[1]]) # None
    /\ PublikationsDatum(earlier[k].site[e.detail_url[1]]) = PublikationsDatum(site[e.detail_url[1]])

(* C28: a key that the catalog has at both crawls with the same            *)
(* publication date is reported neither as added nor as removed nor as     *)
(* changed by the comparison of the two snapshots, whatever retrievals     *)
(* failed in either crawl.                                                 *)
C28_SameDateNotReported ==
    \A k \in DOMAIN earlier :
        ComparesCrawls(k) =>
            \A e \in Range(all_modules) :
                SameDateAtBoth(k, e) =>
                    e.nummer \o <<"-", "V">> \o e.version \notin Reported(changes[1])

(* the same for the keys whose page was retrieved in both crawls *)
SameDateNotReportedIfRetrieved ==
    \A k \in DOMAIN earlier :
        ComparesCrawls(k) =>
            \A e \in Range(all_modules) :
                (/\ SameDateAtBoth(k, e)
                 /\ \E r \in Range(modules) : Key(r) = Key(e) /\ r.handlungsziele # None
                 /\ \E r \in Range(earlier[k].modules) :
                        Key(r) = Key(e) /\ r.handlungsziele # None) =>
                    e.nummer \o <<"-", "V">> \o e.version \notin Reported(changes[1])

----------------------------------------------------------------------------
NoModuleChanges(ch) ==
    ch.neue_module = <<>> /\ ch.geaenderte_module = <<>> /\ ch.geloeschte_module = <<>>

(* C29: after a run of the report generator on the current snapshot, the   *)
(* backup that find_latest_backup selects has the content of that          *)
(* snapshot, so that a second run at once would report no added, changed   *)
(* or removed module; this also when a backup with the date of the         *)
(* snapshot existed before the run.  new_db is the snapshot of the last    *)
(* run of the report generator, and only that run writes backups.          *)
C29_LatestBackupIsCurrent ==
    new_db # None =>
        /\ find_latest_backup # None
        /\ backups[find_latest_backup[1]] = new_db
        /\ NoModuleChanges(compare_databases(backups[find_latest_backup[1]], new_db))

(* the same for a run that finds no backup with the date of the snapshot *)
LatestBackupIsCurrentOnNewDate ==
    [][(/\ pc = "done" /\ pc' = "done" /\ now' = now
        /\ output # None
        /\ Date(output[1].meta.erstellt) \notin DOMAIN backups) =>
            /\ find_latest_backup' # None
            /\ backups'[find_latest_backup'[1]] = output[1]]_vars

(* the consequence alone: a second run at once reports no module *)
SecondRunReportsNothing ==
    (new_db # None /\ find_latest_backup # None) =>
        NoModuleChanges(compare_databases(backups[find_latest_backup[1]], new_db))

----------------------------------------------------------------------------
(* phase3_validate.py: validate_data, the module analysis and the quality  *)
(* rating.  The input is the snapshot file; a goal of a snapshot that      *)
(* phase2_parse.py has written may have knowledge items.                   *)

(* phase2_parse.py lines 64-77: the goals of the versions in keys get      *)
(* knowledge items at their first goal                                     *)
WithKenntnisse(db, keys) ==
    [db EXCEPT !.module =
        [m \in DOMAIN @ |->
            [@[m] EXCEPT !.versionen =
                [j \in DOMAIN @ |->
                    IF /\ <<@[j].nummer, @[j].version>> \in keys
                       /\ @[j].handlungsziele # None
                       /\ @[j].handlungsziele[1] # <<>>
                    THEN [@[j] EXCEPT !.handlungsziele =
                            Some(<<[nummer |-> Head(@[1]).nummer,
                                    beschreibung |-> Head(@[1]).beschreibung,
                                    handlungsnotwendige_kenntnisse |-> <<"k1">>]>>
                                 \o Tail(@[1]))]
                    ELSE @[j]]]]]

(* hz.get('handlungsnotwendige_kenntnisse', []) *)
KenntnisseOf(hz) ==
    IF "handlungsnotwendige_kenntnisse" \in DOMAIN hz
    THEN hz.handlungsnotwendige_kenntnisse ELSE <<>>

(* version.get('handlungsziele', []) *)
HandlungszieleOf(version) ==
    IF version.handlungsziele # None THEN version.handlungsziele[1] ELSE <<>>

OhneBerufe(version) == version.berufe_ids = None \/ version.berufe_ids[1] = <<>>

OhneHandlungsziele(version) == HandlungszieleOf(version) = <<>>

(* the else branch: there are goals and none has knowledge items *)
OhneKenntnisse(version) ==
    /\ HandlungszieleOf(version) # <<>>
    /\ \A k \in DOMAIN HandlungszieleOf(version) :
          KenntnisseOf(HandlungszieleOf(version)[k]) = <<>>

(* modul_key of the entries of a list *)
ModulKeys(hits) == [k \in DOMAIN hits |-> hits[k].key]

validate_data(data) ==
    LET flat == Flatten(data.module)
        NoBerufe(x) == OhneBerufe(x.version)
        NoHandlungsziele(x) == OhneHandlungsziele(x.version)
        NoKenntnisse(x) == OhneKenntnisse(x.version)
        modules_ohne_berufe == ModulKeys(SelectSeq(flat, NoBerufe))
        modules_ohne_handlungsziele == ModulKeys(SelectSeq(flat, NoHandlungsziele))
        modules_ohne_kenntnisse == ModulKeys(SelectSeq(flat, NoKenntnisse))
        total_versionen == data.meta.anzahl_versionen_total
    IN  [modules_ohne_berufe |-> modules_ohne_berufe,
         modules_ohne_handlungsziele |-> modules_ohne_handlungsziele,
         modules_ohne_kenntnisse |-> modules_ohne_kenntnisse,
         total_versionen |-> total_versionen,
         complete_versionen |->
            total_versionen - Len(modules_ohne_berufe)
                - Len(modules_ohne_handlungsziele) - Len(modules_ohne_kenntnisse)]

(* main: load_json, validate_data *)
Validate ==
    /\ variant = "validate" /\ pc = "load"
    /\ report' = Some(validate_data(new_db))
    /\ pc' = "validated"
    /\ UNCHANGED <<variant, site, aggVars, old_db, new_db, changes, parVars, envVars,
                   crawlVars, storeVars, poolVars>>

InitValidate ==
    /\ StoreIdle
    /\ PoolIdle
    /\ variant = "validate"
    /\ site = Site1
    /\ pc = "load"
    /\ old_db = None
    /\ new_db \in {WithKenntnisse(db, keys) :
                      db \in Snapshots, keys \in SUBSET {Key(e) : e \in Range(DiffKeys)}}
    /\ changes = None /\ report = None
    /\ all_modules = <<>> /\ modules = <<>> /\ all_berufe = <<>>
    /\ masters = <<>> /\ berufe_liste = <<>> /\ output = None
    /\ CrawlIdle
    /\ ParIdle
    /\ EnvIdle

NextValidate == Validate

SpecValidate == InitValidate /\ [][NextValidate]_vars

(* the versions with at least one profession, at least one goal and at     *)
(* least one goal with knowledge items                                     *)
CompleteVersions(db) ==
    {v \in VersionsOf(db) :
        ~OhneBerufe(v) /\ ~OhneHandlungsziele(v) /\ ~OhneKenntnisse(v)}

(* C30: the number that validate_data reports as complete versions is the  *)
(* number of versions with at least one profession, at least one goal and  *)
(* at least one goal with knowledge items, and it is at least 0 and at     *)
(* most the number of versions.                                            *)
C30_CompleteCount ==
    pc = "validated" =>
        /\ report[1].complete_versionen = Cardinality(CompleteVersions(new_db))
        /\ report[1].complete_versionen >= 0
        /\ report[1].complete_versionen <= report[1].total_versionen

(* the count is right when no version lacks professions together with     *)
(* goals or knowledge items                                                *)
CompleteCountWhenLacksAreApart ==
    (/\ pc = "validated"
     /\ \A v \in VersionsOf(new_db) :
           OhneBerufe(v) => ~OhneHandlungsziele(v) /\ ~OhneKenntnisse(v)) =>
        /\ report[1].complete_versionen = Cardinality(CompleteVersions(new_db))
        /\ report[1].complete_versionen >= 0
        /\ report[1].complete_versionen <= report[1].total_versionen

(* the reported number is never above the number of complete versions *)
CompleteCountNeverAbove ==
    pc = "validated" =>
        report[1].complete_versionen <= Cardinality(CompleteVersions(new_db))

====
